---------------------------- MODULE Spec2Model ----------------------------
(***************************************************************************)
(* A model of the YAJE build driver: target triples, package discovery,    *)
(* the incremental hash and the per-module compile cache.                  *)
(*                                                                         *)
(* The module holds several specifications over one set of variables; a    *)
(* specification drives the variables of one component and leaves those of *)
(* the others at their idle values.                                        *)
(***************************************************************************)
EXTENDS Integers, Sequences, FiniteSets, TLC

VARIABLES
    tInput,     \* the value the triple pipeline started from (a triple or a string)
    tTriple,    \* the TargetTriple in hand, or Null
    tString,    \* the triple string in hand
    tPc,        \* which of parse / render have been applied, in order
    hFiles,     \* calculateHash: the file system, path -> bytes or Missing
    hDeps,      \* calculateHash: the dependencies argument (paths)
    hArgs,      \* calculateHash: the args argument
    hHash,      \* the digest calculateHash returned for the inputs in hand
    hPrev,      \* the digest it returned before the last modification
    hEdit,      \* what was modified last: "none", "source", "dependency", "args"
    cSources,   \* module.sources: the source paths of the module, in order
    cFiles,     \* the file system: path -> bytes or Missing
    cArgs,      \* args: the result of generateCompilerArguments for the module
    cObjects,   \* the object files of objectFolder: name -> what was compiled
    cHashFiles, \* the sidecars of moduleCacheFolder: name -> stored hash
    cPc,        \* compileModule: "idle", "source", "hashed", "compiled", "archive"
    cIdx,       \* compileModule: index of the source the loop is at
    nameTable,  \* compileModule: basename -> running counter
    name,       \* compileModule: the name given to the source the loop is at
    currentHash,\* compileModule: the hash computed for that source
    objects,    \* compileModule: the object names pushed so far
    cArchive,   \* the members of the module's archive, as last written
    cCompiled,  \* history: indices for which this run invoked compileFile
    cHandled,   \* history: per source, the inputs this run left it current for
    cPrev,      \* history: cHandled of the previous run
    cRuns,      \* history: number of runs started
    cEdits,     \* history: number of edits made
    cModule,    \* the configuration (CFGResult) of the module
    cDirective, \* how the source of directory 1 names the header
    cError,     \* what the last run of compileModule threw, and the clang call behind it
    dTarget,    \* the target checkPackageJSON is called with
    dTree,      \* the package tree: directory -> its manifest and build file
    packages,   \* build: the PackageCollection, in insertion order
    dCall,      \* checkPackageJSON: the directory of the call being entered
    dStack,     \* checkPackageJSON: the calls that are in their dependency loop
    dPc,        \* build: the phase it is in
    dIdx,       \* buildNativeCode: position of the loop over packages
    loadingFunctions, \* buildNativeCode: the loading functions collected
    dIterated,  \* history: the packages buildNativeCode took as native
    dVisits,    \* history: directory -> number of times it was processed
    modules,    \* buildNativeCode: the archives and objects handed to the linker
    libraries,  \* buildNativeCode: the -l flags collected, in insertion order
    mainC,      \* the content of <genFolder>/main.c, Missing before it is written
    linkArgs,   \* the arguments of the link invocation, empty before it
    dSpawns,    \* history: the subprocesses build has run, with their exit codes
    eContent,   \* embedFile: the content argument, a sequence of bytes
    ePrefix,    \* embedFile: the prefix argument
    eStdin,     \* embedFile: what has been written to clang's stdin
    ePc,        \* embedFile: "call", "piped", "resolved" or "rejected"
    gDependencies, \* generateCompilerArguments: the dependencies argument
    gModule,    \* generateCompilerArguments: the module argument
    gFlags,     \* generateCompilerArguments: the flags argument
    gArgs,      \* generateCompilerArguments: what it returned
    gPc,        \* generateCompilerArguments: "call" or "returned"
    kPackages,   \* a PackageCollection
    kBefore,   \* history: the collection when the accessor was called
    kResult,   \* what the accessor returned or threw
    kPc,  \* PackageCollection: "set", "getCore" or "getBundler"
    rText,   \* the generated main.c that runs
    rPc,   \* main: the line of main.c that is executed next
    rTrace,   \* history: the calls made so far, in order
    rCode,   \* main: the local exit_code
    rStatus,   \* main: "running", "exited" or "returned"
    rResult,  \* what main returned
    bGateway,   \* the bundler gateway the build loaded
    bArtifacts,   \* the artifacts the bundler produced
    bRejects,   \* TRUE when the bundler itself rejects
    bResult,   \* what gateway.bundle resolved or rejected with
    bPc,  \* the position of build around the bundling
    sArgs,   \* the argument vector getDependencies is given
    sSource,   \* the source it is given
    sDirective,   \* how the source includes the header
    sLine,   \* the arguments clang is spawned with
    sResult,   \* the list getDependencies returns
    sPc,  \* before or after the call
    oBundle,   \* the bundle file the gateway named
    oObject,   \* modFolder/bundle.o
    oHashFile,   \* cacheFolder/bundle.hash
    oModules,   \* the link inputs of this build
    oEmbed,   \* what became of embedFile in this build
    oBefore,   \* the three files when the embed step began
    oPc,   \* the position of the embed step
    oBuilds,  \* the builds begun
    uPlan,   \* the number of sources of each native module
    uPc,   \* where build stands and whether it awaits a child
    uModule,   \* the module of the loop over packages
    uSource,   \* the source of the loop in compileModule
    uChildren,   \* the children that have not closed
    uLog,   \* the spawns and cache hits of this build, in order
    uArchives,   \* the archive compileModule returned for each module
    uPrevArchives,   \* the archives of the build before
    uBuilds,  \* the builds begun
    mModule,   \* the configuration whose macros are serialized
    mResult,   \* what generateCompilerArguments returned or threw
    mPc,  \* before or after the call
    fInstructions,   \* the CFGResult of the native module
    fCompileArgs,   \* the arguments of the compile of its source
    fLinkArgs,   \* the arguments of the link
    fPc,  \* the step of the build
    cfg,   \* the fields of the CFG object of a build script
    cfgResult,   \* the CFGResult complete() returned
    cfgCalls,   \* the calls made on the CFG
    cfgPc,  \* whether the script runs, has completed or has thrown
    xCommand,   \* the command of the CLI: build or cdb
    xOption,   \* the string of its -t option, empty without one
    xRan,   \* TRUE once build or cdb was called
    xExit,   \* the exit code of the process
    xPc,  \* before the action, or exited
    iTarget,   \* the target of the build
    iCore,   \* the instructions of @yaje/core and of the one native module
    iArgv,   \* the clang invocations so far: the site and the argument vector
    iPc,  \* where buildNativeCode is
    jSources,   \* module.sources of the module
    jObjects,   \* the names of the object files in objectFolder
    jHashFiles,   \* the sidecars of moduleCacheFolder: name -> stored hash
    jPc,   \* where compileModule is
    jIdx,   \* the index of the source the loop is at
    jNameTable,   \* nameTable
    jName,   \* the name of the source the loop is at
    jLog,  \* what the run did so far: compiles with their exit codes, sidecar writes, the archiver
    vFs,   \* the file system: path -> "dir", "file" or "none"
    vRoot,   \* root: the project root
    vFrom,   \* fromDir
    vDir,   \* dir: the directory the loop is at
    vResult,   \* what resolvePackageDir returned
    vPc   \* where resolvePackageDir is: "loop", "returned", "threw"

tripleVars == <<tInput, tTriple, tString, tPc>>

hashVars == <<hFiles, hDeps, hArgs, hHash, hPrev, hEdit>>

cacheVars == <<cSources, cFiles, cArgs, cObjects, cHashFiles, cPc, cIdx,
               nameTable, name, currentHash, objects, cArchive,
               cCompiled, cHandled, cPrev, cRuns, cEdits, cModule, cDirective,
               cError>>

nativeVars == <<modules, libraries, mainC, linkArgs, dSpawns>>

discoveryVars == <<dTree, dTarget, packages, dCall, dStack, dPc, dIdx, loadingFunctions,
                   dIterated, dVisits, nativeVars>>

embedVars == <<eContent, ePrefix, eStdin, ePc>>

argsVars == <<gDependencies, gModule, gFlags, gArgs, gPc>>

collectionVars == <<kPackages, kBefore, kResult, kPc>>

mainVars == <<rText, rPc, rTrace, rCode, rStatus, rResult>>

gatewayVars == <<bGateway, bArtifacts, bRejects, bResult, bPc>>

scanVars == <<sArgs, sSource, sDirective, sLine, sResult, sPc>>

stepVars == <<oBundle, oObject, oHashFile, oModules, oEmbed, oBefore, oPc, oBuilds>>

processVars == <<uPlan, uPc, uModule, uSource, uChildren, uLog, uArchives, uPrevArchives, uBuilds>>

macroVars == <<mModule, mResult, mPc>>

flagsVars == <<fInstructions, fCompileArgs, fLinkArgs, fPc>>

configVars == <<cfg, cfgResult, cfgCalls, cfgPc>>

commandVars == <<xCommand, xOption, xRan, xExit, xPc>>

clangVars == <<iTarget, iCore, iArgv, iPc>>

failureVars == <<jSources, jObjects, jHashFiles, jPc, jIdx, jNameTable, jName, jLog>>

resolveVars == <<vFs, vRoot, vFrom, vDir, vResult, vPc>>

vars == <<tInput, tTriple, tString, tPc,
          hFiles, hDeps, hArgs, hHash, hPrev, hEdit,
          cSources, cFiles, cArgs, cObjects, cHashFiles, cPc, cIdx,
          nameTable, name, currentHash, objects, cArchive,
          cCompiled, cHandled, cPrev, cRuns, cEdits, cModule, cDirective, cError,
          dTree, dTarget, packages, dCall, dStack, dPc, dIdx, loadingFunctions,
          dIterated, dVisits, modules, libraries, mainC, linkArgs, dSpawns,
          eContent, ePrefix, eStdin, ePc,
          gDependencies, gModule, gFlags, gArgs, gPc,
          kPackages, kBefore, kResult, kPc,
          rText, rPc, rTrace, rCode, rStatus, rResult,
          bGateway, bArtifacts, bRejects, bResult, bPc,
          sArgs, sSource, sDirective, sLine, sResult, sPc,
          oBundle, oObject, oHashFile, oModules, oEmbed, oBefore, oPc, oBuilds,
          uPlan, uPc, uModule, uSource, uChildren, uLog, uArchives, uPrevArchives, uBuilds,
          mModule, mResult, mPc,
          fInstructions, fCompileArgs, fLinkArgs, fPc,
          cfg, cfgResult, cfgCalls, cfgPc,
          xCommand, xOption, xRan, xExit, xPc,
          iTarget, iCore, iArgv, iPc,
          jSources, jObjects, jHashFiles, jPc, jIdx, jNameTable, jName, jLog,
          vFs, vRoot, vFrom, vDir, vResult, vPc>>

\* What an action of one component leaves alone: the other components.
exceptTriple == <<hashVars, cacheVars, discoveryVars, embedVars, argsVars, collectionVars, mainVars, gatewayVars, scanVars, stepVars, processVars, macroVars, flagsVars, configVars, commandVars, clangVars, failureVars, resolveVars>>

exceptHash == <<tripleVars, cacheVars, discoveryVars, embedVars, argsVars, collectionVars, mainVars, gatewayVars, scanVars, stepVars, processVars, macroVars, flagsVars, configVars, commandVars, clangVars, failureVars, resolveVars>>

exceptCache == <<tripleVars, hashVars, discoveryVars, embedVars, argsVars, collectionVars, mainVars, gatewayVars, scanVars, stepVars, processVars, macroVars, flagsVars, configVars, commandVars, clangVars, failureVars, resolveVars>>

exceptDiscovery == <<tripleVars, hashVars, cacheVars, embedVars, argsVars, collectionVars, mainVars, gatewayVars, scanVars, stepVars, processVars, macroVars, flagsVars, configVars, commandVars, clangVars, failureVars, resolveVars>>

exceptEmbed == <<tripleVars, hashVars, cacheVars, discoveryVars, argsVars, collectionVars, mainVars, gatewayVars, scanVars, stepVars, processVars, macroVars, flagsVars, configVars, commandVars, clangVars, failureVars, resolveVars>>

exceptArgs == <<tripleVars, hashVars, cacheVars, discoveryVars, embedVars, collectionVars, mainVars, gatewayVars, scanVars, stepVars, processVars, macroVars, flagsVars, configVars, commandVars, clangVars, failureVars, resolveVars>>

exceptCollection == <<tripleVars, hashVars, cacheVars, discoveryVars, embedVars, argsVars, mainVars, gatewayVars, scanVars, stepVars, processVars, macroVars, flagsVars, configVars, commandVars, clangVars, failureVars, resolveVars>>

exceptMain == <<tripleVars, hashVars, cacheVars, discoveryVars, embedVars, argsVars, collectionVars, gatewayVars, scanVars, stepVars, processVars, macroVars, flagsVars, configVars, commandVars, clangVars, failureVars, resolveVars>>

exceptGateway == <<tripleVars, hashVars, cacheVars, discoveryVars, embedVars, argsVars, collectionVars, mainVars, scanVars, stepVars, processVars, macroVars, flagsVars, configVars, commandVars, clangVars, failureVars, resolveVars>>

exceptScan == <<tripleVars, hashVars, cacheVars, discoveryVars, embedVars, argsVars, collectionVars, mainVars, gatewayVars, stepVars, processVars, macroVars, flagsVars, configVars, commandVars, clangVars, failureVars, resolveVars>>

exceptStep == <<tripleVars, hashVars, cacheVars, discoveryVars, embedVars, argsVars, collectionVars, mainVars, gatewayVars, scanVars, processVars, macroVars, flagsVars, configVars, commandVars, clangVars, failureVars, resolveVars>>

exceptProcess == <<tripleVars, hashVars, cacheVars, discoveryVars, embedVars, argsVars, collectionVars, mainVars, gatewayVars, scanVars, stepVars, macroVars, flagsVars, configVars, commandVars, clangVars, failureVars, resolveVars>>

exceptMacro == <<tripleVars, hashVars, cacheVars, discoveryVars, embedVars, argsVars, collectionVars, mainVars, gatewayVars, scanVars, stepVars, processVars, flagsVars, configVars, commandVars, clangVars, failureVars, resolveVars>>

exceptFlags == <<tripleVars, hashVars, cacheVars, discoveryVars, embedVars, argsVars, collectionVars, mainVars, gatewayVars, scanVars, stepVars, processVars, macroVars, configVars, commandVars, clangVars, failureVars, resolveVars>>

exceptConfig == <<tripleVars, hashVars, cacheVars, discoveryVars, embedVars, argsVars, collectionVars, mainVars, gatewayVars, scanVars, stepVars, processVars, macroVars, flagsVars, commandVars, clangVars, failureVars, resolveVars>>

exceptCommand == <<tripleVars, hashVars, cacheVars, discoveryVars, embedVars, argsVars, collectionVars, mainVars, gatewayVars, scanVars, stepVars, processVars, macroVars, flagsVars, configVars, clangVars, failureVars, resolveVars>>

exceptClang == <<tripleVars, hashVars, cacheVars, discoveryVars, embedVars, argsVars, collectionVars, mainVars, gatewayVars, scanVars, stepVars, processVars, macroVars, flagsVars, configVars, commandVars, failureVars, resolveVars>>

exceptFailure == <<tripleVars, hashVars, cacheVars, discoveryVars, embedVars, argsVars, collectionVars, mainVars, gatewayVars, scanVars, stepVars, processVars, macroVars, flagsVars, configVars, commandVars, clangVars, resolveVars>>

exceptResolve == <<tripleVars, hashVars, cacheVars, discoveryVars, embedVars, argsVars, collectionVars, mainVars, gatewayVars, scanVars, stepVars, processVars, macroVars, flagsVars, configVars, commandVars, clangVars, failureVars>>

\* null, as a value that compares with a TargetTriple record.
Null == [null |-> TRUE]

\* No string in hand yet.
NoString == <<>>

(***************************************************************************)
(* Strings.  A string is a sequence of tokens; a token is the hyphen or a  *)
(* maximal hyphen-free word, so no two words are adjacent in a string.     *)
(***************************************************************************)
Hyphen == "-"

Words == {"x86_64", "unknown", "darwin", "system", "linux", "windows"}

Tokens == Words \cup {Hyphen}

\* Bound: the number of tokens of a field of an input triple.
MaxFieldLen == 1

\* Bound: the number of hyphen-separated parts of an input string.
MaxParts == 5

IsString(s) == \A i \in 1..(Len(s) - 1) : s[i] = Hyphen \/ s[i + 1] = Hyphen

RECURSIVE SeqsUpTo(_, _)
SeqsUpTo(S, n) ==
    IF n = 0 THEN {<<>>}
    ELSE LET shorter == SeqsUpTo(S, n - 1)
         IN  shorter \cup {Append(s, x) : s \in shorter, x \in S}

StringsUpTo(n) == {s \in SeqsUpTo(Tokens, n) : IsString(s)}

Unknown == <<"unknown">>
Darwin == <<"darwin">>
System == <<"system">>
Windows == <<"windows">>
Linux == <<"linux">>
Msvc == <<"msvc">>
Gnu == <<"gnu">>

\* String.prototype.split(sep): the parts between the separators, in order;
\* n separators give n + 1 parts, empty parts included.
RECURSIVE SplitFrom(_, _, _, _)
SplitFrom(s, sep, i, cur) ==
    IF i > Len(s) THEN <<cur>>
    ELSE IF s[i] = sep THEN <<cur>> \o SplitFrom(s, sep, i + 1, <<>>)
    ELSE SplitFrom(s, sep, i + 1, Append(cur, s[i]))

Split(s, sep) == SplitFrom(s, sep, 1, <<>>)

\* Array.prototype.join(sep) / a template literal `${a}-${b}-...`.
RECURSIVE Join(_, _)
Join(parts, sep) ==
    IF Len(parts) = 0 THEN <<>>
    ELSE IF Len(parts) = 1 THEN parts[1]
    ELSE parts[1] \o <<sep>> \o Join(Tail(parts), sep)

RangeOf(seq) == {seq[i] : i \in DOMAIN seq}

(***************************************************************************)
(* Target triples                                                          *)
(***************************************************************************)
TargetTriple(arch, vendor, platform, abi) ==
    [arch |-> arch, vendor |-> vendor, platform |-> platform, abi |-> abi]

\* A parse that drops the vendor of the 4-part form.
parseTargetTripleDropVendor(triple) ==
    LET parts == Split(triple, Hyphen)
    IN  IF Len(parts) = 4 THEN TargetTriple(parts[1], Unknown, parts[3], parts[4])
        ELSE IF Len(parts) = 3 THEN TargetTriple(parts[1], Unknown, parts[2], parts[3])
        ELSE IF Len(parts) = 2 THEN
            TargetTriple(parts[1], Unknown, parts[2],
                         IF parts[2] = Windows THEN Msvc
                         ELSE IF parts[2] = Linux THEN Gnu
                         ELSE System)
        ELSE Null

\* A parse that takes a single part as the architecture.
parseTargetTripleOnePart(triple) ==
    LET parts == Split(triple, Hyphen)
    IN  IF Len(parts) = 4 THEN TargetTriple(parts[1], parts[2], parts[3], parts[4])
        ELSE IF Len(parts) = 3 THEN TargetTriple(parts[1], Unknown, parts[2], parts[3])
        ELSE IF Len(parts) = 2 THEN
            TargetTriple(parts[1], Unknown, parts[2],
                         IF parts[2] = Windows THEN Msvc
                         ELSE IF parts[2] = Linux THEN Gnu
                         ELSE System)
        ELSE IF Len(parts) = 1 THEN TargetTriple(parts[1], Unknown, <<>>, System)
        ELSE Null

\* A parse that gives every 2-part form the abi "system".
parseTargetTripleNoAbiInference(triple) ==
    LET parts == Split(triple, Hyphen)
    IN  IF Len(parts) = 4 THEN TargetTriple(parts[1], parts[2], parts[3], parts[4])
        ELSE IF Len(parts) = 3 THEN TargetTriple(parts[1], Unknown, parts[2], parts[3])
        ELSE IF Len(parts) = 2 THEN TargetTriple(parts[1], Unknown, parts[2], System)
        ELSE Null

parseTargetTriple(triple) ==
    LET parts == Split(triple, Hyphen)
    IN  IF Len(parts) = 4 THEN TargetTriple(parts[1], parts[2], parts[3], parts[4])
        ELSE IF Len(parts) = 3 THEN TargetTriple(parts[1], Unknown, parts[2], parts[3])
        ELSE IF Len(parts) = 2 THEN
            TargetTriple(parts[1], Unknown, parts[2],
                         IF parts[2] = Windows THEN Msvc
                         ELSE IF parts[2] = Linux THEN Gnu
                         ELSE System)
        ELSE Null

getTargetTripleString(target) ==
    IF target.platform = Darwin /\ target.abi = System
    THEN Join(<<target.arch, target.vendor, target.platform>>, Hyphen)
    ELSE Join(<<target.arch, target.vendor, target.platform, target.abi>>, Hyphen)

\* The inputs of the triple pipeline: every triple whose fields are strings of
\* at most MaxFieldLen tokens, and every string of at most MaxParts parts, each
\* part empty or a word.
FieldStrings == StringsUpTo(MaxFieldLen)

TripleInputs ==
    {TargetTriple(a, v, p, b) : a \in FieldStrings, v \in FieldStrings,
                                p \in FieldStrings, b \in FieldStrings}

PartStrings == {<<>>} \cup {<<w>> : w \in Words}

StringInputs == {Join(ps, Hyphen) : ps \in SeqsUpTo(PartStrings, MaxParts) \ {<<>>}}

InitTriple ==
    \/ /\ tInput \in TripleInputs
       /\ tTriple = tInput
       /\ tString = NoString
       /\ tPc = "T"
    \/ /\ tInput \in StringInputs
       /\ tString = tInput
       /\ tTriple = Null
       /\ tPc = "S"

\* getTargetTripleString applied to the triple in hand.
Render ==
    /\ tPc \in {"T", "ST"}
    /\ tTriple # Null
    /\ tString' = getTargetTripleString(tTriple)
    /\ tPc' = IF tPc = "T" THEN "TS" ELSE "STS"
    /\ UNCHANGED <<tInput, tTriple>>
    /\ UNCHANGED exceptTriple

\* parseTargetTriple applied to the string in hand.
Parse ==
    /\ tPc \in {"S", "TS"}
    /\ tTriple' = parseTargetTriple(tString)
    /\ tPc' = IF tPc = "S" THEN "ST" ELSE "TST"
    /\ UNCHANGED <<tInput, tString>>
    /\ UNCHANGED exceptTriple

IdleTriple ==
    /\ tInput = NoString
    /\ tTriple = Null
    /\ tString = NoString
    /\ tPc = "idle"

(***************************************************************************)
(* The incremental hash                                                    *)
(***************************************************************************)
Space == " "

\* The content of a path that does not exist.
Missing == <<"ENOENT">>

Exists(fs, path) == fs[path] # Missing

\* SHA-256 is taken to be collision-free: the digest of a byte stream is
\* modelled by the stream it was fed.
Sha256(stream) == [sha256 |-> stream]

\* streamFileToHash rejects when the file cannot be read.
HashError == [error |-> "ENOENT"]

\* The bytes of every dependency that exists, in order.
RECURSIVE StreamDependencies(_, _)
StreamDependencies(fs, dependencies) ==
    IF Len(dependencies) = 0 THEN <<>>
    ELSE (IF Exists(fs, Head(dependencies)) THEN fs[Head(dependencies)] ELSE <<>>)
         \o StreamDependencies(fs, Tail(dependencies))

calculateHash(fs, source, dependencies, args) ==
    IF ~Exists(fs, source) THEN HashError
    ELSE Sha256(Join(args, Space) \o fs[source] \o StreamDependencies(fs, dependencies))

\* Bound: the number of elements of an argument vector.
MaxArgs == 2

HashSource == "main.c"

HashPaths == {"main.c", "a.h", "b.h"}

Contents == {<<>>, <<"a">>, <<"b">>, <<"a", "b">>}

\* Arguments: two plain ones and one that holds a space.
ArgStrings == {<<"-D">>, <<"X">>, <<"-D", Space, "X">>}

ArgVectors == SeqsUpTo(ArgStrings, MaxArgs)

DependencyLists == {<<>>, <<"a.h">>, <<"a.h", "b.h">>, <<"main.c", "a.h">>}

InitHash ==
    /\ hFiles \in {fs \in [HashPaths -> Contents \cup {Missing}] : Exists(fs, HashSource)}
    /\ hDeps \in DependencyLists
    /\ hArgs \in ArgVectors
    /\ hHash = calculateHash(hFiles, HashSource, hDeps, hArgs)
    /\ hPrev = hHash
    /\ hEdit = "none"

\* The source's bytes change; the hash is computed again.
ModifySource ==
    /\ hEdit = "none"
    /\ \E c \in Contents \ {hFiles[HashSource]} :
         hFiles' = [hFiles EXCEPT ![HashSource] = c]
    /\ hPrev' = hHash
    /\ hHash' = calculateHash(hFiles', HashSource, hDeps, hArgs)
    /\ hEdit' = "source"
    /\ UNCHANGED <<hDeps, hArgs>>
    /\ UNCHANGED exceptHash

\* The bytes of one existing dependency file change; the hash is computed again.
ModifyDependency ==
    /\ hEdit = "none"
    /\ \E i \in DOMAIN hDeps :
         /\ hDeps[i] # HashSource
         /\ Exists(hFiles, hDeps[i])
         /\ \E c \in Contents \ {hFiles[hDeps[i]]} :
              hFiles' = [hFiles EXCEPT ![hDeps[i]] = c]
    /\ hPrev' = hHash
    /\ hHash' = calculateHash(hFiles', HashSource, hDeps, hArgs)
    /\ hEdit' = "dependency"
    /\ UNCHANGED <<hDeps, hArgs>>
    /\ UNCHANGED exceptHash

\* The argument vector changes (arguments added, removed or altered); the hash
\* is computed again.
ChangeArguments ==
    /\ hEdit = "none"
    /\ hArgs' \in ArgVectors \ {hArgs}
    /\ hPrev' = hHash
    /\ hHash' = calculateHash(hFiles, HashSource, hDeps, hArgs')
    /\ hEdit' = "args"
    /\ UNCHANGED <<hFiles, hDeps>>
    /\ UNCHANGED exceptHash

IdleHash ==
    /\ hFiles = <<>>
    /\ hDeps = <<>>
    /\ hArgs = <<>>
    /\ hHash = HashError
    /\ hPrev = HashError
    /\ hEdit = "idle"


(***************************************************************************)
(* The per-module compile and its cache (compileModule)                    *)
(***************************************************************************)
\* Bound: the number of sources of the module.
MaxSources == 3

\* Bound: the number of runs of compileModule in a behaviour.
MaxRuns == 2

\* Bound: the number of edits (files, configuration) in a behaviour.
MaxEdits == 2

Path(dir, base) == [dir |-> dir, base |-> base]

\* The i-th source of the module lives in directory i: CFG.sources is a set of
\* paths, so the sources differ in their paths and may share their basenames.
Basenames == {<<"foo">>, <<"foo", "2">>}

SourceLists ==
    {[i \in 1..n |-> Path(i, b[i])] : n \in {0}, b \in {<<>>}}
    \cup UNION {{[i \in 1..n |-> Path(i, b[i])] : b \in [1..n -> Basenames]} : n \in 1..MaxSources}

\* path.basename(source, ".c")
Basename(source) == source.base

DigitChars == <<"0", "1", "2", "3", "4", "5", "6", "7", "8", "9">>

\* The decimal digits of n, as `name += index` appends them.
RECURSIVE Decimal(_)
Decimal(n) ==
    IF n < 10 THEN <<DigitChars[n + 1]>>
    ELSE Decimal(n \div 10) \o <<DigitChars[(n % 10) + 1]>>

\* Map.get, with undefined read as 0 (both are falsy in `if (index)`).
MapGet(map, key) == IF key \in DOMAIN map THEN map[key] ELSE 0

\* Map.set
MapSet(map, key, value) ==
    [k \in DOMAIN map \cup {key} |-> IF k = key THEN value ELSE map[k]]

EmptyMap == <<>>

\* The naming step of the loop of compileModule: the name of the next source
\* and the name table after it.
AssignName(table, source) ==
    LET base == Basename(source)
        index == MapGet(table, base)
    IN  IF index # 0
        THEN LET suffixed == base \o Decimal(index + 1)
             IN  [name |-> suffixed, table |-> MapSet(table, suffixed, index + 1)]
        ELSE [name |-> base, table |-> MapSet(table, base, 1)]

\* The names compileModule gives to the sources of a list, in order.
RECURSIVE NamesFrom(_, _)
NamesFrom(table, sources) ==
    IF Len(sources) = 0 THEN <<>>
    ELSE LET assigned == AssignName(table, Head(sources))
         IN  <<assigned.name>> \o NamesFrom(assigned.table, Tail(sources))

ObjectNames(sources) == NamesFrom(EmptyMap, sources)

(***************************************************************************)
(* Compiler arguments (generateCompilerArguments)                          *)
(***************************************************************************)
\* Bound: the number of include directories of a configuration.
MaxIncludeDirs == 2

\* Bound: the number of macros of a configuration.
MaxMacros == 2

\* A value of defineMacros: true, a number or a string.
MacroTrue == [type |-> "boolean"]

MacroNumber(n) == [type |-> "number", number |-> n]

MacroString(str) == [type |-> "string", string |-> str]

\* One entry of Object.entries(defineMacros).
MacroEntry(macroName, macroValue) == [name |-> macroName, value |-> macroValue]

\* The string that follows -D for an entry.
MacroDefinition(entry) ==
    IF entry.value.type = "boolean" THEN entry.name
    ELSE IF entry.value.type = "number"
    THEN entry.name \o <<"=">> \o Decimal(entry.value.number)
    ELSE entry.name \o <<"=\"">> \o entry.value.string \o <<"\"">>

\* option, value for every value of a list, in order.
RECURSIVE Pairs(_, _)
Pairs(option, values) ==
    IF Len(values) = 0 THEN <<>>
    ELSE <<option, Head(values)>> \o Pairs(option, Tail(values))

\* The -I pairs of the configurations of a list, in order.
RECURSIVE IncludeDirArgs(_)
IncludeDirArgs(configs) ==
    IF Len(configs) = 0 THEN <<>>
    ELSE Pairs(<<"-I">>, Head(configs).includeDirs) \o IncludeDirArgs(Tail(configs))

\* The -D pairs of the configurations of a list, in order.
RECURSIVE DefineMacroArgs(_)
DefineMacroArgs(configs) ==
    IF Len(configs) = 0 THEN <<>>
    ELSE Pairs(<<"-D">>, [i \in DOMAIN Head(configs).defineMacros |->
                             MacroDefinition(Head(configs).defineMacros[i])])
         \o DefineMacroArgs(Tail(configs))

\* Arguments with the macros ahead of the include directories.
generateCompilerArgumentsMacrosFirst(dependencies, module, flags) ==
    DefineMacroArgs(Append(dependencies, module))
    \o IncludeDirArgs(Append(dependencies, module))
    \o Pairs(<<"-L">>, module.libraryLookup)
    \o flags

generateCompilerArguments(dependencies, module, flags) ==
    IncludeDirArgs(Append(dependencies, module))
    \o DefineMacroArgs(Append(dependencies, module))
    \o Pairs(<<"-L">>, module.libraryLookup)
    \o flags

\* The lists without repeats, of at most n elements of S.
DistinctSeqsUpTo(S, n) ==
    {q \in SeqsUpTo(S, n) : \A i, j \in DOMAIN q : i # j => q[i] # q[j]}

\* What generateCompilerArguments reads of a CFGResult.
Configuration(includeDirs, defineMacros, libraryLookup) ==
    [includeDirs |-> includeDirs, defineMacros |-> defineMacros,
     libraryLookup |-> libraryLookup]

MacroValues == {MacroTrue, MacroNumber(1), MacroString(<<"s">>)}

MacroLists ==
    {q \in SeqsUpTo({MacroEntry(n, v) : n \in {<<"A">>, <<"B">>}, v \in MacroValues},
                    MaxMacros) :
        \A i, j \in DOMAIN q : i # j => q[i].name # q[j].name}

Configurations ==
    {Configuration(dirs, macros, libs) :
        dirs \in DistinctSeqsUpTo({<<"/inc">>, <<"/quickjs">>}, MaxIncludeDirs),
        macros \in MacroLists,
        libs \in {<<>>, <<<<"/lib">>>>}}

\* The configuration of the one dependency of the model.
DependencyConfiguration ==
    Configuration(<<<<"/core">>>>, <<MacroEntry(<<"C">>, MacroTrue)>>, <<<<"/corelib">>>>)

FlagLists == {<<>>, <<<<"-g">>>>, <<<<"-g">>, <<"-c">>>>}

InitArgs ==
    /\ gDependencies \in {<<>>, <<DependencyConfiguration>>}
    /\ gModule \in Configurations
    /\ gFlags \in FlagLists
    /\ gArgs = <<>>
    /\ gPc = "call"

GenerateCompilerArguments ==
    /\ gPc = "call"
    /\ gArgs' = generateCompilerArguments(gDependencies, gModule, gFlags)
    /\ gPc' = "returned"
    /\ UNCHANGED <<gDependencies, gModule, gFlags>>
    /\ UNCHANGED exceptArgs

IdleArgs ==
    /\ gDependencies = <<>>
    /\ gModule = <<>>
    /\ gFlags = <<>>
    /\ gArgs = <<>>
    /\ gPc = "off"

(***************************************************************************)
(* The header scan (getDependencies) and the compile of one source         *)
(***************************************************************************)
\* The one header of the model, included by the source of directory 1.
Header == Path(0, <<"yaje", ".h">>)

\* The directory of the header, as an include directory names it.
HeaderDir == <<"/", "0">>

IncludesHeader(source) == source.dir = 1

\* How the source of directory 1 names the header: by a path relative to its
\* own directory, or by a name that is searched in the include directories.
Directives == {"relative", "search"}

FileBytes == {<<"a">>, <<"b">>}

\* The target the module is compiled for, rendered.
TargetString == <<"x86_64-unknown-linux-gnu">>

getBaseCFlags(target) ==
    <<<<"-std=gnu11">>, <<"-Wall">>, <<"-Wextra">>, <<"-Wformat=2">>,
      <<"-Wno-implicit-fallthrough">>, <<"-Wno-sign-compare">>,
      <<"-Wno-missing-field-initializers">>, <<"-Wno-unused-parameter">>,
      <<"-Wno-unused-but-set-variable">>, <<"-Wno-unused-result">>,
      <<"-Wno-array-bounds">>, <<"-fwrapv">>, <<"-funsigned-char">>, <<"-g">>,
      <<"-target">>, target, <<"-c">>>>

\* The configurations of the module: with or without the header's directory
\* as an include directory, without and with a macro definition.
ModuleConfigurations ==
    {Configuration(dirs, macros, <<>>) :
        dirs \in {<<>>, <<HeaderDir>>},
        macros \in {<<>>, <<MacroEntry(<<"X">>, MacroTrue)>>}}

\* The argument vector compileModule makes for a module without native
\* dependencies.
ModuleArguments(module) ==
    generateCompilerArguments(<<>>, module, getBaseCFlags(TargetString))

\* finalArgs: the elements of args that start with -I or -D, and -target
\* with the element after it.
RECURSIVE FilterArguments(_)
FilterArguments(args) ==
    IF Len(args) = 0 THEN <<>>
    ELSE LET arg == Head(args)
         IN  IF Len(arg) = 0 THEN FilterArguments(Tail(args))
             ELSE IF arg[1] \in {"-I", "-D"}
             THEN <<arg>> \o FilterArguments(Tail(args))
             ELSE IF arg = <<"-target">>
             THEN IF Len(args) >= 2
                  THEN <<arg, args[2]>> \o FilterArguments(Tail(Tail(args)))
                  ELSE FilterArguments(Tail(args))
             ELSE FilterArguments(Tail(args))

\* The words clang reads as options that take the next element as their value.
SeparateOptions == {<<"-I">>, <<"-D">>, <<"-target">>}

\* clang's reading of a command line: -I, -D and -target standing alone take
\* the next element as their value, whatever it is; -Idir and -Dmacro carry
\* their value; every other element but -MM is an input file.  A macro whose
\* name is not an identifier and an option without its value are errors.
RECURSIVE ParseCommandLine(_)
ParseCommandLine(line) ==
    IF Len(line) = 0 THEN [error |-> FALSE, includeDirs |-> <<>>, inputs |-> <<>>]
    ELSE LET arg == Head(line)
         IN  IF arg \in SeparateOptions
             THEN IF Len(line) < 2
                  THEN [error |-> TRUE, includeDirs |-> <<>>, inputs |-> <<>>]
                  ELSE LET rest == ParseCommandLine(Tail(Tail(line)))
                       IN  IF arg = <<"-I">>
                           THEN [rest EXCEPT !.includeDirs = <<line[2]>> \o @]
                           ELSE IF arg = <<"-D">> /\ line[2] \in SeparateOptions
                           THEN [rest EXCEPT !.error = TRUE]
                           ELSE rest
             ELSE LET rest == ParseCommandLine(Tail(line))
                  IN  IF arg = <<"-MM">> THEN rest
                      ELSE IF Len(arg) > 1 /\ arg[1] = "-I"
                      THEN [rest EXCEPT !.includeDirs = <<Tail(arg)>> \o @]
                      ELSE IF Len(arg) > 1 /\ arg[1] = "-D" THEN rest
                      ELSE [rest EXCEPT !.inputs = <<arg>> \o @]

NoError == [none |-> TRUE]

\* A source path and an object path as the strings clang is given.
PathString(path) == <<"/">> \o Decimal(path.dir) \o <<"/">> \o path.base \o <<".c">>

ObjectPath(objectName) == <<"obj/">> \o objectName \o <<".o">>

\* The compile fails when the source includes a header that does not exist
\* (the argument vector of the compile holds every include directory with
\* its -I).
ClangFails(fs, source) == IncludesHeader(source) /\ ~Exists(fs, Header)

\* subprocess.run("clang", ["-MM", ...finalArgs, source]): the exit code and
\* the prerequisites clang lists, the source itself and then its headers.
\* clang exits non-zero when the command line is in error, when an input file
\* does not exist, and when the header is not found: it is found next to the
\* source for a relative directive, in an include directory for a searched one.
ClangMM(fs, finalArgs, source, directive) ==
    LET parsed == ParseCommandLine(<<<<"-MM">>>> \o finalArgs \o <<PathString(source)>>)
        found ==
            /\ Exists(fs, Header)
            /\ directive = "relative" \/ HeaderDir \in RangeOf(parsed.includeDirs)
    IN  IF \/ parsed.error
           \/ parsed.inputs # <<PathString(source)>>
           \/ IncludesHeader(source) /\ ~found
        THEN [code |-> 1, prerequisites |-> <<>>]
        ELSE [code |-> 0,
              prerequisites |->
                  <<source>> \o (IF IncludesHeader(source) THEN <<Header>> ELSE <<>>)]

\* getDependencies: the prerequisites clang -MM lists, or the empty list when
\* clang exits non-zero.
getDependencies(fs, args, source, directive) ==
    LET result == ClangMM(fs, FilterArguments(args), source, directive)
    IN  IF result.code # 0 THEN <<>> ELSE result.prerequisites

\* What clang writes to the object: the translation of these inputs.
CompileResult(fs, args, source) ==
    [args |-> args,
     source |-> fs[source],
     headers |-> IF IncludesHeader(source) THEN <<fs[Header]>> ELSE <<>>]

\* The inputs of the translation unit of a source, as they are now.
UnitInputs(source) == CompileResult(cFiles, cArgs, source)

NoInputs == [none |-> TRUE]

\* subprocess.run("clang", args.concat(source, "-o", object)): the exit code
\* and what clang wrote to stderr.
RunClang(fs, args, source, object) ==
    IF ClangFails(fs, source)
    THEN [code |-> 1,
          stderr |-> PathString(source) \o <<": fatal error: 'yaje.h' file not found">>]
    ELSE [code |-> 0, stderr |-> <<>>]

\* compileFile: it throws an Error of clang's stderr, or returns true.
compileFile(fs, args, source, object) ==
    LET result == RunClang(fs, args, source, object)
    IN  IF result.code # 0 THEN [threw |-> TRUE, error |-> result.stderr]
        ELSE [threw |-> FALSE, value |-> TRUE]

\* args.map(arg => `"${arg}"`).join(' ')
QuotedArgs(args) == Join([i \in DOMAIN args |-> <<"\"">> \o args[i] \o <<"\"">>], " ")

\* The message of the Error compileModule makes when compileFile returns
\* false.
FailedToCompile(args, source, object) ==
    <<"Failed to compile '">> \o PathString(source) \o <<"' (clang ">>
    \o QuotedArgs(args) \o <<" \"">> \o PathString(source) \o <<"\" \"-o\" \"">>
    \o object \o <<"\")">>

\* `if (!await compileFile(...)) throw new Error(...)`: the message of what
\* compileModule throws for a source, NoError when the compile succeeds.
CompileError(fs, args, source, object) ==
    LET compiled == compileFile(fs, args, source, object)
    IN  IF compiled.threw THEN compiled.error
        ELSE IF ~compiled.value THEN FailedToCompile(args, source, object)
        ELSE NoError

InitCache ==
    /\ cSources \in SourceLists
    /\ cFiles \in [{cSources[i] : i \in DOMAIN cSources} \cup {Header} -> FileBytes]
    /\ cFiles[Header] = <<"a">>
    /\ cDirective \in Directives
    /\ cModule \in ModuleConfigurations
    /\ cModule.defineMacros = <<>>
    /\ cDirective = "search" => cModule.includeDirs = <<HeaderDir>>
    /\ cArgs = ModuleArguments(cModule)
    /\ cObjects = EmptyMap
    /\ cHashFiles = EmptyMap
    /\ cPc = "idle"
    /\ cIdx = 0
    /\ nameTable = EmptyMap
    /\ name = <<>>
    /\ currentHash = HashError
    /\ objects = <<>>
    /\ cArchive = <<>>
    /\ cCompiled = {}
    /\ cHandled = [i \in DOMAIN cSources |-> NoInputs]
    /\ cPrev = [i \in DOMAIN cSources |-> NoInputs]
    /\ cRuns = 0
    /\ cEdits = 0
    /\ cError = NoError

\* The end of one iteration of the loop: objects.push(object), then the next
\* source, or the archive after the last one.
LoopAdvance ==
    /\ objects' = Append(objects, name)
    /\ cHandled' = [cHandled EXCEPT ![cIdx] = UnitInputs(cSources[cIdx])]
    /\ IF cIdx < Len(cSources)
       THEN cIdx' = cIdx + 1 /\ cPc' = "source"
       ELSE cIdx' = cIdx /\ cPc' = "archive"

\* compileModule is called: the name table and the object list start empty.
StartCompileModule ==
    /\ cPc = "idle"
    /\ cRuns < MaxRuns
    /\ cRuns' = cRuns + 1
    /\ nameTable' = EmptyMap
    /\ objects' = <<>>
    /\ name' = <<>>
    /\ currentHash' = HashError
    /\ cCompiled' = {}
    /\ cPrev' = cHandled
    /\ cHandled' = [i \in DOMAIN cSources |-> NoInputs]
    /\ cError' = NoError
    /\ IF Len(cSources) > 0
       THEN cIdx' = 1 /\ cPc' = "source"
       ELSE cIdx' = 0 /\ cPc' = "archive"
    /\ UNCHANGED <<cSources, cFiles, cArgs, cObjects, cHashFiles, cArchive, cEdits>>
    /\ UNCHANGED <<cModule, cDirective>>
    /\ UNCHANGED exceptCache

\* The head of the loop body for one source: its name, its dependencies, its
\* hash and the decision to skip.
NameAndHash ==
    /\ cPc = "source"
    /\ LET assigned == AssignName(nameTable, cSources[cIdx])
           sourceDeps == getDependencies(cFiles, cArgs, cSources[cIdx], cDirective)
       IN  /\ name' = assigned.name
           /\ nameTable' = assigned.table
           /\ currentHash' = calculateHash(cFiles, cSources[cIdx], sourceDeps, cArgs)
    /\ cPc' = "hashed"
    /\ UNCHANGED <<cSources, cFiles, cArgs, cObjects, cHashFiles, cIdx, objects,
                   cArchive, cCompiled, cHandled, cPrev, cRuns, cEdits>>
    /\ UNCHANGED <<cModule, cDirective, cError>>
    /\ UNCHANGED exceptCache

\* skip: the object and the sidecar exist and the stored hash is the current one.
Skip ==
    /\ name \in DOMAIN cObjects
    /\ name \in DOMAIN cHashFiles
    /\ cHashFiles[name] = currentHash

CacheHit ==
    /\ cPc = "hashed"
    /\ Skip
    /\ LoopAdvance
    /\ UNCHANGED <<cSources, cFiles, cArgs, cObjects, cHashFiles, nameTable, name,
                   currentHash, cArchive, cCompiled, cPrev, cRuns, cEdits>>
    /\ UNCHANGED <<cModule, cDirective, cError>>
    /\ UNCHANGED exceptCache

\* compileFile succeeds: clang has written the object; the sidecar is not
\* written yet.
CompileFile ==
    /\ cPc = "hashed"
    /\ ~Skip
    /\ ~ClangFails(cFiles, cSources[cIdx])
    /\ cCompiled' = cCompiled \cup {cIdx}
    /\ cObjects' = MapSet(cObjects, name, CompileResult(cFiles, cArgs, cSources[cIdx]))
    /\ cPc' = "compiled"
    /\ UNCHANGED <<cSources, cFiles, cArgs, cHashFiles, cIdx, nameTable, name,
                   currentHash, objects, cArchive, cHandled, cPrev, cRuns, cEdits>>
    /\ UNCHANGED <<cModule, cDirective, cError>>
    /\ UNCHANGED exceptCache

\* compileModule is left (it returns, it throws, or the process dies): its
\* local variables are gone.
Leave ==
    /\ cPc' = "idle"
    /\ cIdx' = 0
    /\ nameTable' = EmptyMap
    /\ name' = <<>>
    /\ currentHash' = HashError
    /\ objects' = <<>>

\* compileFile throws (clang exits non-zero): compileModule ends with the error.
CompileFileFails ==
    /\ cPc = "hashed"
    /\ ~Skip
    /\ ClangFails(cFiles, cSources[cIdx])
    /\ cCompiled' = cCompiled \cup {cIdx}
    /\ cError' = [thrown |-> CompileError(cFiles, cArgs, cSources[cIdx], ObjectPath(name)),
                  args |-> cArgs, source |-> cSources[cIdx], object |-> ObjectPath(name),
                  stderr |-> RunClang(cFiles, cArgs, cSources[cIdx],
                                      ObjectPath(name)).stderr]
    /\ Leave
    /\ UNCHANGED <<cSources, cFiles, cArgs, cObjects, cHashFiles, cArchive, cHandled,
                   cPrev, cRuns, cEdits>>
    /\ UNCHANGED <<cModule, cDirective>>
    /\ UNCHANGED exceptCache

\* fs.writeFileSync(hashFile, currentHash), then the end of the iteration.
WriteHashFile ==
    /\ cPc = "compiled"
    /\ cHashFiles' = MapSet(cHashFiles, name, currentHash)
    /\ LoopAdvance
    /\ UNCHANGED <<cSources, cFiles, cArgs, cObjects, nameTable, name, currentHash,
                   cArchive, cCompiled, cPrev, cRuns, cEdits>>
    /\ UNCHANGED <<cModule, cDirective, cError>>
    /\ UNCHANGED exceptCache

\* bundleFiles: llvm-ar rcs archive objects...; compileModule returns.
BundleFiles ==
    /\ cPc = "archive"
    /\ cArchive' = [i \in DOMAIN objects |-> cObjects[objects[i]]]
    /\ Leave
    /\ UNCHANGED <<cSources, cFiles, cArgs, cObjects, cHashFiles, cCompiled, cHandled,
                   cPrev, cRuns, cEdits>>
    /\ UNCHANGED <<cModule, cDirective, cError>>
    /\ UNCHANGED exceptCache

\* The process dies between two steps of a run.
Crash ==
    /\ cPc # "idle"
    /\ Leave
    /\ UNCHANGED <<cSources, cFiles, cArgs, cObjects, cHashFiles, cArchive, cCompiled,
                   cHandled, cPrev, cRuns, cEdits>>
    /\ UNCHANGED <<cModule, cDirective, cError>>
    /\ UNCHANGED exceptCache

\* Between two runs, a source file or the header is edited, or the header is
\* deleted or brought back.
EditFile ==
    /\ cPc = "idle"
    /\ cEdits < MaxEdits
    /\ cEdits' = cEdits + 1
    /\ \E path \in DOMAIN cFiles :
         \E bytes \in (FileBytes \cup (IF path = Header THEN {Missing} ELSE {}))
                      \ {cFiles[path]} :
            cFiles' = [cFiles EXCEPT ![path] = bytes]
    /\ UNCHANGED <<cSources, cArgs, cObjects, cHashFiles, cPc, cIdx, nameTable, name,
                   currentHash, objects, cArchive, cCompiled, cHandled, cPrev, cRuns>>
    /\ UNCHANGED <<cModule, cDirective, cError>>
    /\ UNCHANGED exceptCache

\* Between two runs, the defineMacros of the module's configuration change,
\* and with them the argument vector of the next run.
EditConfiguration ==
    /\ cPc = "idle"
    /\ cEdits < MaxEdits
    /\ cEdits' = cEdits + 1
    /\ \E module \in ModuleConfigurations :
         /\ module.includeDirs = cModule.includeDirs
         /\ module.defineMacros # cModule.defineMacros
         /\ cModule' = module
         /\ cArgs' = ModuleArguments(module)
    /\ UNCHANGED <<cSources, cFiles, cObjects, cHashFiles, cPc, cIdx, nameTable, name,
                   currentHash, objects, cArchive, cCompiled, cHandled, cPrev, cRuns>>
    /\ UNCHANGED <<cDirective, cError>>
    /\ UNCHANGED exceptCache

IdleCache ==
    /\ cSources = <<>>
    /\ cFiles = <<>>
    /\ cArgs = <<>>
    /\ cObjects = EmptyMap
    /\ cHashFiles = EmptyMap
    /\ cPc = "off"
    /\ cIdx = 0
    /\ nameTable = EmptyMap
    /\ name = <<>>
    /\ currentHash = HashError
    /\ objects = <<>>
    /\ cArchive = <<>>
    /\ cCompiled = {}
    /\ cHandled = <<>>
    /\ cPrev = <<>>
    /\ cRuns = 0
    /\ cEdits = 0
    /\ cModule = <<>>
    /\ cDirective = "off"
    /\ cError = NoError

(***************************************************************************)
(* Package discovery and the loop of the native build                      *)
(***************************************************************************)
\* Bound: how often one directory is processed before the model stops
\* following the recursion of checkPackageJSON.
MaxVisits == 2

Core == "@yaje/core"

\* The project directory (process.cwd()) and the installed packages, all
\* under <project>/node_modules.  A directory is a sequence of segments; the
\* empty sequence is the root of the file system.
Root == <<"app">>

Installed(key) == <<"app", "node_modules", key>>

\* path.dirname
Dirname(dir) == IF Len(dir) = 0 THEN dir ELSE SubSeq(dir, 1, Len(dir) - 1)

\* Every list that keeps some of the elements of seq, in their order.
SubLists(seq) ==
    {SelectSeq(seq, LAMBDA k : k \in S) : S \in SUBSET RangeOf(seq)}

\* The build-configuration script of a directory: none, one that exports a
\* plain CFG, or one whose configuration object also supplies linkLibraries in
\* the result of its complete().
NoScript == [exists |-> FALSE]

PlainScript == [exists |-> TRUE, linking |-> FALSE]

LinkingScript(linkLibraries) ==
    [exists |-> TRUE, linking |-> TRUE, linkLibraries |-> linkLibraries]

\* A build-configuration script whose loading throws: it has no default
\* export, its default export is not a CFG, or it gives addSource,
\* addIncludeDir or addLibraryLookup a path that is not an existing directory.
ThrowingScript(cause) == [exists |-> TRUE, linking |-> FALSE, throws |-> cause]

ScriptFaults ==
    {"no default export", "not a CFG", "addSource", "addIncludeDir", "addLibraryLookup"}

\* What the model keeps of a package directory: the fields of package.json
\* that build reads and the build-configuration script that is there.
Manifest(pkgName, dependencies, bundler, script) ==
    [name |-> pkgName, dependencies |-> dependencies, bundler |-> bundler,
     buildFile |-> script.exists, script |-> script]

\* The target of the build.
BuildTarget == TargetTriple(<<"x86_64">>, Unknown, Linux, Gnu)

PackageTrees ==
    {  (Root :> Manifest("app", rootDeps, rootBundler, rootScript))
    @@ (Installed(Core) :> Manifest(Core, <<>>, FALSE, coreScript))
    @@ (Installed("p") :> Manifest(pName, pDeps, FALSE, pScript))
    @@ (IF qInstalled
        THEN Installed("q") :> Manifest("q", qDeps, TRUE, NoScript)
        ELSE <<>>)
       : rootDeps \in SubLists(<<Core, "p", "q">>),
         rootBundler \in BOOLEAN,
         rootScript \in {NoScript, PlainScript, LinkingScript(<<"m", "z">>)},
         coreScript \in {PlainScript, LinkingScript(<<"m">>)},
         pName \in {"p", "p-renamed"},
         pDeps \in SubLists(<<Core, "p", "q">>),
         pScript \in {NoScript, PlainScript, LinkingScript(<<"z">>)},
         qInstalled \in BOOLEAN, qDeps \in SubLists(<<Core, "p">>) }

\* The trees in which the script of p throws when it is loaded.
ThrowingTrees ==
    {[tree EXCEPT ![Installed("p")] =
          Manifest(@.name, @.dependencies, @.bundler, ThrowingScript(cause))] :
        tree \in {t \in PackageTrees :
                     /\ Installed("q") \in DOMAIN t
                     /\ t[Installed("p")].name = "p"
                     /\ t[Installed("p")].script = PlainScript
                     /\ t[Installed("q")].dependencies = <<>>},
        cause \in ScriptFaults}

\* The trees checkPackageJSON is also called on with the target unset: ones
\* in which a script is loaded before the traversal can end.
UnsetTargetTrees ==
    {t \in PackageTrees :
        /\ t[Root].buildFile \/ Core \in RangeOf(t[Root].dependencies)
        /\ Installed("q") \in DOMAIN t
        /\ t[Installed("p")].name = "p"
        /\ t[Installed("q")].dependencies = <<>>}

NotFound == <<"ENOENT">>

\* resolvePackageDir: the nearest <d>/node_modules/<name> that is a directory,
\* for d the start directory and its ancestors; NotFound when it throws.
RECURSIVE resolvePackageDir(_, _, _, _)
resolvePackageDir(tree, pkgName, root, fromDir) ==
    LET resolvePath == fromDir \o <<"node_modules", pkgName>>
    IN  IF resolvePath \in DOMAIN tree THEN resolvePath
        ELSE IF Dirname(fromDir) = fromDir THEN NotFound
        ELSE resolvePackageDir(tree, pkgName, root, Dirname(fromDir))

\* CFG.complete() reading a CFG.moduleName that loadBuildInstructions was
\* not given: the default "unnamed", for every package.
CompleteResultUnnamed(moduleName, dir) ==
    [name |-> "unnamed",
     sources |-> <<>>,
     libraryLookup |-> <<>>,
     includeDirs |-> <<Append(dir, "include")>>,
     defineMacros |-> <<>>,
     loadingFunctions |-> <<<<dir[Len(dir)], "_init">>>>,
     cFlags |-> <<>>,
     lFlags |-> <<>>]

\* CFG.complete(), for the build script of a package directory: the
\* CFGResult, with the loading function the script sets.
CompleteResult(moduleName, dir) ==
    [name |-> moduleName,
     sources |-> <<>>,
     libraryLookup |-> <<>>,
     includeDirs |-> <<Append(dir, "include")>>,
     defineMacros |-> <<>>,
     loadingFunctions |-> <<<<dir[Len(dir)], "_init">>>>,
     cFlags |-> <<>>,
     lFlags |-> <<>>]

\* new CFG() in a build script: it throws while CFG.target is not set.
CFGConstructorThrows(target) == target = Null

\* Loading the script does not check that its default export is a CFG.
LoadThrowsWithoutTypeCheck(tree, projectDir, target) ==
    /\ tree[projectDir].buildFile
    /\ LET script == tree[projectDir].script
       IN  IF "throws" \in DOMAIN script
           THEN \/ script.throws = "no default export"
                \/ script.throws # "not a CFG" /\ CFGConstructorThrows(target)
                \/ script.throws \in {"addSource", "addIncludeDir", "addLibraryLookup"}
           ELSE CFGConstructorThrows(target)

\* loadBuildInstructions throws: the import of the script throws (the CFG
\* constructor without a target, an add... call with a path that is not a
\* directory), or the module has no default export or one that is not a CFG.
LoadThrows(tree, projectDir, target) ==
    /\ tree[projectDir].buildFile
    /\ LET script == tree[projectDir].script
       IN  IF "throws" \in DOMAIN script
           THEN \/ script.throws \in {"no default export", "not a CFG"}
                \/ CFGConstructorThrows(target)
                \/ script.throws \in {"addSource", "addIncludeDir", "addLibraryLookup"}
           ELSE CFGConstructorThrows(target)

\* loadBuildInstructions: null when the directory has no build file.
NoInstructions == [null |-> TRUE]

\* module.default.complete() of the build script of a directory.
ScriptResult(tree, projectDir, moduleName) ==
    IF tree[projectDir].script.linking
    THEN [linkLibraries |-> tree[projectDir].script.linkLibraries]
         @@ CompleteResult(moduleName, projectDir)
    ELSE CompleteResult(moduleName, projectDir)

loadBuildInstructions(tree, projectDir, moduleName) ==
    IF tree[projectDir].buildFile THEN ScriptResult(tree, projectDir, moduleName)
    ELSE NoInstructions

TrackedPackage(json, dir) ==
    [packageJSON |-> json, packageFolder |-> dir, isNative |-> FALSE,
     isBundler |-> json.bundler]

NativeTrackedPackage(json, dir, instructions) ==
    [packageJSON |-> json, packageFolder |-> dir, isNative |-> TRUE,
     instructions |-> instructions, isBundler |-> json.bundler]

\* PackageCollection.has
Has(pkgs, pkgName) == \E i \in DOMAIN pkgs : pkgs[i].packageJSON.name = pkgName

\* PackageCollection.set: Map.set under the manifest's name; a name that is
\* there keeps its place.
PackagesSet(pkgs, pkg) ==
    IF Has(pkgs, pkg.packageJSON.name)
    THEN [i \in DOMAIN pkgs |->
            IF pkgs[i].packageJSON.name = pkg.packageJSON.name THEN pkg ELSE pkgs[i]]
    ELSE Append(pkgs, pkg)

NoCall == <<>>

InitDiscovery ==
    /\ dTree \in PackageTrees \cup ThrowingTrees
    /\ dTarget \in {BuildTarget, Null}
    /\ dTarget = Null => dTree \in UnsetTargetTrees
    /\ packages = <<>>
    /\ dCall = Root
    /\ dStack = <<>>
    /\ dPc = "discovery"
    /\ dIdx = 0
    /\ loadingFunctions = <<>>
    /\ dIterated = <<>>
    /\ dVisits = [d \in DOMAIN dTree |-> 0]
    /\ modules = <<>>
    /\ libraries = <<>>
    /\ mainC = Missing
    /\ linkArgs = <<>>
    /\ dSpawns = <<>>

\* The collection after the head of checkPackageJSON: the non-native record,
\* then the native one when the directory has build instructions.
Tracked(pkgs, dir) ==
    LET json == dTree[dir]
        first == PackagesSet(pkgs, TrackedPackage(json, dir))
        instructions == loadBuildInstructions(dTree, dir, json.name)
    IN  IF instructions # NoInstructions
        THEN PackagesSet(first, NativeTrackedPackage(json, dir, instructions))
        ELSE first

\* checkPackageJSON, from its entry to its dependency loop, for a manifest
\* that lists @yaje/core.
CheckPackageJSON ==
    /\ dPc = "discovery"
    /\ dCall # NoCall
    /\ dVisits[dCall] < MaxVisits
    /\ ~LoadThrows(dTree, dCall, dTarget)
    /\ Core \in RangeOf(dTree[dCall].dependencies)
    /\ dVisits' = [dVisits EXCEPT ![dCall] = @ + 1]
    /\ packages' = Tracked(packages, dCall)
    /\ dStack' = Append(dStack, [dir |-> dCall, next |-> 1])
    /\ dCall' = NoCall
    /\ UNCHANGED <<dTree, dTarget, dPc, dIdx, loadingFunctions, dIterated>>
    /\ UNCHANGED nativeVars
    /\ UNCHANGED exceptDiscovery

\* checkPackageJSON for a manifest that does not list @yaje/core: it returns
\* before the dependency loop.
CheckPackageJSONNoCore ==
    /\ dPc = "discovery"
    /\ dCall # NoCall
    /\ dVisits[dCall] < MaxVisits
    /\ ~LoadThrows(dTree, dCall, dTarget)
    /\ Core \notin RangeOf(dTree[dCall].dependencies)
    /\ dVisits' = [dVisits EXCEPT ![dCall] = @ + 1]
    /\ packages' = Tracked(packages, dCall)
    /\ dCall' = NoCall
    /\ dPc' = IF Len(dStack) = 0 THEN "discovered" ELSE dPc
    /\ UNCHANGED <<dTree, dTarget, dStack, dIdx, loadingFunctions, dIterated>>
    /\ UNCHANGED nativeVars
    /\ UNCHANGED exceptDiscovery

\* checkPackageJSON for a directory whose build script does not load: the
\* non-native record is set, loadBuildInstructions throws, and the error goes
\* up through every call: discovery fails and build returns 1.
CheckPackageJSONLoadFails ==
    /\ dPc = "discovery"
    /\ dCall # NoCall
    /\ dVisits[dCall] < MaxVisits
    /\ LoadThrows(dTree, dCall, dTarget)
    /\ dVisits' = [dVisits EXCEPT ![dCall] = @ + 1]
    /\ packages' = PackagesSet(packages, TrackedPackage(dTree[dCall], dCall))
    /\ dCall' = NoCall
    /\ dStack' = <<>>
    /\ dPc' = "failed"
    /\ UNCHANGED <<dTree, dTarget, dIdx, loadingFunctions, dIterated>>
    /\ UNCHANGED nativeVars
    /\ UNCHANGED exceptDiscovery

\* The dependency at the head of the loop of the innermost call.
TopFrame == dStack[Len(dStack)]

TopKey == dTree[TopFrame.dir].dependencies[TopFrame.next]

InLoop ==
    /\ dPc = "discovery"
    /\ dCall = NoCall
    /\ Len(dStack) > 0
    /\ TopFrame.next <= Len(dTree[TopFrame.dir].dependencies)

AdvanceLoop == dStack' = [dStack EXCEPT ![Len(dStack)].next = @ + 1]

\* packages.has(name): continue.
DependencyTracked ==
    /\ InLoop
    /\ Has(packages, TopKey)
    /\ AdvanceLoop
    /\ UNCHANGED <<dTree, dTarget, packages, dCall, dPc, dIdx, loadingFunctions, dIterated,
                   dVisits>>
    /\ UNCHANGED nativeVars
    /\ UNCHANGED exceptDiscovery

\* The name is not tracked: its directory is resolved and checkPackageJSON is
\* called on it.
DependencyRecurse ==
    /\ InLoop
    /\ ~Has(packages, TopKey)
    /\ resolvePackageDir(dTree, TopKey, Root, TopFrame.dir) # NotFound
    /\ dCall' = resolvePackageDir(dTree, TopKey, Root, TopFrame.dir)
    /\ AdvanceLoop
    /\ UNCHANGED <<dTree, dTarget, packages, dPc, dIdx, loadingFunctions, dIterated, dVisits>>
    /\ UNCHANGED nativeVars
    /\ UNCHANGED exceptDiscovery

\* resolvePackageDir throws: discovery fails and build returns 1.
DependencyNotFound ==
    /\ InLoop
    /\ ~Has(packages, TopKey)
    /\ resolvePackageDir(dTree, TopKey, Root, TopFrame.dir) = NotFound
    /\ dPc' = "failed"
    /\ dStack' = <<>>
    /\ UNCHANGED <<dTree, dTarget, packages, dCall, dIdx, loadingFunctions, dIterated, dVisits>>
    /\ UNCHANGED nativeVars
    /\ UNCHANGED exceptDiscovery

\* The loop of the innermost call is over: it returns.
CheckPackageJSONReturn ==
    /\ dPc = "discovery"
    /\ dCall = NoCall
    /\ Len(dStack) > 0
    /\ TopFrame.next > Len(dTree[TopFrame.dir].dependencies)
    /\ dStack' = SubSeq(dStack, 1, Len(dStack) - 1)
    /\ dPc' = IF Len(dStack) = 1 THEN "discovered" ELSE dPc
    /\ UNCHANGED <<dTree, dTarget, packages, dCall, dIdx, loadingFunctions, dIterated, dVisits>>
    /\ UNCHANGED nativeVars
    /\ UNCHANGED exceptDiscovery

\* A subprocess build has run, with its exit code.
Spawn(phase, code) == [phase |-> phase, code |-> code]

\* generateOutputInformation: the output folders exist or are made.
GenerateOutputInformation ==
    /\ dPc = "discovered"
    /\ dPc' = "output"
    /\ UNCHANGED <<dTree, dTarget, packages, dCall, dStack, dIdx, loadingFunctions, dIterated,
                   dVisits, nativeVars>>
    /\ UNCHANGED exceptDiscovery

\* generateOutputInformation: fs.mkdirSync throws; build has no handler
\* around the call.
GenerateOutputInformationThrows ==
    /\ dPc = "discovered"
    /\ dPc' = "threw"
    /\ UNCHANGED <<dTree, dTarget, packages, dCall, dStack, dIdx, loadingFunctions, dIterated,
                   dVisits, nativeVars>>
    /\ UNCHANGED exceptDiscovery

\* buildManagedCode: packages.getBundler() finds the first bundler and the
\* bundle is made.
BuildManagedCode ==
    /\ dPc = "output"
    /\ \E i \in DOMAIN packages : packages[i].isBundler
    /\ dPc' = "bundled"
    /\ UNCHANGED <<dTree, dTarget, packages, dCall, dStack, dIdx, loadingFunctions, dIterated,
                   dVisits, nativeVars>>
    /\ UNCHANGED exceptDiscovery

\* packages.getBundler() throws: build returns 1.
BuildManagedCodeFails ==
    /\ dPc = "output"
    /\ ~\E i \in DOMAIN packages : packages[i].isBundler
    /\ dPc' = "failed"
    /\ UNCHANGED <<dTree, dTarget, packages, dCall, dStack, dIdx, loadingFunctions, dIterated,
                   dVisits, nativeVars>>
    /\ UNCHANGED exceptDiscovery

\* The bundler is there and loadBundler, init or bundle rejects: build
\* returns 1.
BundleFails ==
    /\ dPc = "output"
    /\ \E i \in DOMAIN packages : packages[i].isBundler
    /\ dPc' = "failed"
    /\ UNCHANGED <<dTree, dTarget, packages, dCall, dStack, dIdx, loadingFunctions, dIterated,
                   dVisits, nativeVars>>
    /\ UNCHANGED exceptDiscovery

\* buildNativeCode: clang and llvm-ar answer --version; the loop over the
\* packages starts.
ProbeTools ==
    /\ dPc = "bundled"
    /\ dSpawns' = Append(dSpawns, Spawn("probe", 0))
    /\ dPc' = "native"
    /\ dIdx' = 1
    /\ UNCHANGED <<dTree, dTarget, packages, dCall, dStack, loadingFunctions, dIterated,
                   dVisits, modules, libraries, mainC, linkArgs>>
    /\ UNCHANGED exceptDiscovery

\* A tool is not installed: buildNativeCode returns false.
ProbeToolsFails ==
    /\ dPc = "bundled"
    /\ dSpawns' = Append(dSpawns, Spawn("probe", 1))
    /\ dPc' = "failed"
    /\ UNCHANGED <<dTree, dTarget, packages, dCall, dStack, dIdx, loadingFunctions, dIterated,
                   dVisits, modules, libraries, mainC, linkArgs>>
    /\ UNCHANGED exceptDiscovery

\* buildNativeCode, loop over packages: a package that is not native.
NotNative ==
    /\ dPc = "native"
    /\ dIdx <= Len(packages)
    /\ ~packages[dIdx].isNative
    /\ dIdx' = dIdx + 1
    /\ UNCHANGED <<dTree, dTarget, packages, dCall, dStack, dPc, loadingFunctions, dIterated,
                   dVisits, nativeVars>>
    /\ UNCHANGED exceptDiscovery

\* Set.prototype.add for each flag, in order: a flag that is there keeps its
\* place.
RECURSIVE AddAll(_, _)
AddAll(set, flags) ==
    IF Len(flags) = 0 THEN set
    ELSE AddAll(IF Head(flags) \in RangeOf(set) THEN set ELSE Append(set, Head(flags)),
                Tail(flags))

LibraryFlags(linkLibraries) ==
    [i \in DOMAIN linkLibraries |-> <<"-l", linkLibraries[i]>>]

\* buildNativeCode, loop over packages: a native package.  Its loading
\* functions are collected; then its instructions.linkLibraries is iterated,
\* which throws for a CFGResult that has no such field.
NativeModule ==
    /\ dPc = "native"
    /\ dIdx <= Len(packages)
    /\ packages[dIdx].isNative
    /\ loadingFunctions' =
           loadingFunctions \o packages[dIdx].instructions.loadingFunctions
    /\ dIterated' = Append(dIterated, packages[dIdx].packageFolder)
    /\ IF "linkLibraries" \in DOMAIN packages[dIdx].instructions
       THEN /\ libraries' = AddAll(libraries,
                   LibraryFlags(packages[dIdx].instructions.linkLibraries))
            /\ dPc' = "module"
       ELSE /\ libraries' = libraries
            /\ dPc' = "threw"
    /\ UNCHANGED <<dTree, dTarget, packages, dCall, dStack, dIdx, dVisits, modules, mainC,
                   linkArgs, dSpawns>>
    /\ UNCHANGED exceptDiscovery

\* The archive compileModule returns for a package: lib_<hash>.a, the hash
\* taken from the package's object folder.
Archive(pkgName) == <<"lib_", pkgName, ".a">>

\* compileModule of the package succeeds: its archive joins the modules.
CompileModule ==
    /\ dPc = "module"
    /\ dSpawns' = Append(dSpawns, Spawn("module", 0))
    /\ modules' = Append(modules, Archive(packages[dIdx].packageJSON.name))
    /\ dIdx' = dIdx + 1
    /\ dPc' = "native"
    /\ UNCHANGED <<dTree, dTarget, packages, dCall, dStack, loadingFunctions, dIterated,
                   dVisits, libraries, mainC, linkArgs>>
    /\ UNCHANGED exceptDiscovery

\* compileModule throws (a compile or the archiver fails): buildNativeCode
\* returns false.
CompileModuleFails ==
    /\ dPc = "module"
    /\ dSpawns' = Append(dSpawns, Spawn("module", 1))
    /\ dPc' = "failed"
    /\ UNCHANGED <<dTree, dTarget, packages, dCall, dStack, dIdx, loadingFunctions, dIterated,
                   dVisits, modules, libraries, mainC, linkArgs>>
    /\ UNCHANGED exceptDiscovery

\* buildNativeCode, after the loop over packages.
ModulesDone ==
    /\ dPc = "native"
    /\ dIdx > Len(packages)
    /\ dPc' = "embed"
    /\ UNCHANGED <<dTree, dTarget, packages, dCall, dStack, dIdx, loadingFunctions, dIterated,
                   dVisits, nativeVars>>
    /\ UNCHANGED exceptDiscovery

BundleObject == <<"bundle", ".o">>

EntryPointObject == <<"main", ".o">>

\* The bundle is embedded: bundle.o joins the modules.
EmbedBundle ==
    /\ dPc = "embed"
    /\ dSpawns' = Append(dSpawns, Spawn("embed", 0))
    /\ modules' = Append(modules, BundleObject)
    /\ dPc' = "entry"
    /\ UNCHANGED <<dTree, dTarget, packages, dCall, dStack, dIdx, loadingFunctions, dIterated,
                   dVisits, libraries, mainC, linkArgs>>
    /\ UNCHANGED exceptDiscovery

\* embedFile rejects: buildNativeCode returns false.
EmbedBundleFails ==
    /\ dPc = "embed"
    /\ dSpawns' = Append(dSpawns, Spawn("embed", 1))
    /\ dPc' = "failed"
    /\ UNCHANGED <<dTree, dTarget, packages, dCall, dStack, dIdx, loadingFunctions, dIterated,
                   dVisits, modules, libraries, mainC, linkArgs>>
    /\ UNCHANGED exceptDiscovery

NewLine == "\n"

\* An entry point that calls the loading functions last to first.
generateEntryPointReversed(fns) ==
    <<"void yaje_core_load_modules(JSRuntime *rt, JSContext *ctx) {", NewLine>>
    \o Join([i \in DOMAIN fns |->
                <<"    ">> \o fns[Len(fns) + 1 - i] \o <<"(rt, ctx);">>], NewLine)
    \o <<NewLine, "}">>

\* An entry point whose main returns before it frees the runtime.
generateEntryPointWithoutFree(fns) ==
    <<"void yaje_core_load_modules(JSRuntime *rt, JSContext *ctx) {", NewLine>>
    \o Join([i \in DOMAIN fns |-> <<"    ">> \o fns[i] \o <<"(rt, ctx);">>], NewLine)
    \o <<NewLine, "}", NewLine,
         "int main(int argc, char **argv) {", NewLine,
         "    JSRuntime *rt = NULL;", NewLine,
         "    JSContext *ctx = NULL;", NewLine,
         "    yaje_core_ctor(&rt, &ctx);", NewLine,
         "    yaje_core_load_modules(rt, ctx);", NewLine,
         "    int exit_code = yaje_core_execute(rt, ctx);", NewLine,
         "    return exit_code;", NewLine,
         "}">>

\* generateEntryPoint: the text written to main.c.
generateEntryPoint(fns) ==
    <<"#include \"quickjs.h\"", NewLine, "#include \"yaje.h\"", NewLine, NewLine>>
    \o Join([i \in DOMAIN fns |->
                <<"extern void ">> \o fns[i] \o <<"(JSRuntime *rt, JSContext *ctx);">>],
            NewLine)
    \o <<NewLine, NewLine,
         "void yaje_core_load_modules(JSRuntime *rt, JSContext *ctx) {", NewLine,
         "    ", NewLine>>
    \o Join([i \in DOMAIN fns |-> <<"    ">> \o fns[i] \o <<"(rt, ctx);">>], NewLine)
    \o <<NewLine, NewLine, "}", NewLine, NewLine,
         "int main(int argc, char **argv) {", NewLine,
         "    JSRuntime *rt = NULL;", NewLine,
         "    JSContext *ctx = NULL;", NewLine,
         "    ", NewLine,
         "    yaje_core_ctor(&rt, &ctx);", NewLine,
         "    ", NewLine,
         "    yaje_core_load_modules(rt, ctx);", NewLine,
         "    ", NewLine,
         "    int exit_code = yaje_core_execute(rt, ctx);", NewLine,
         "    ", NewLine,
         "    yaje_core_free(&rt, &ctx);", NewLine,
         "    return exit_code;", NewLine,
         "}">>

\* The lines of a text.
Lines(text) == Split(text, NewLine)

\* The index of the first line at or after i that is the given line, 0 if none.
RECURSIVE LineIndex(_, _, _)
LineIndex(lines, line, i) ==
    IF i > Len(lines) THEN 0
    ELSE IF lines[i] = line THEN i
    ELSE LineIndex(lines, line, i + 1)

\* The names between a first and a last token, for the lines of that form.
NamesIn(lines, first, last) ==
    LET form(line) == Len(line) >= 3 /\ line[1] = first /\ line[Len(line)] = last
        kept == SelectSeq(lines, form)
    IN  [i \in DOMAIN kept |-> SubSeq(kept[i], 2, Len(kept[i]) - 1)]

\* The functions called in the body of yaje_core_load_modules, in order.
CallsOf(text) ==
    LET lines == Lines(text)
        open == LineIndex(lines,
                    <<"void yaje_core_load_modules(JSRuntime *rt, JSContext *ctx) {">>, 1)
        close == LineIndex(lines, <<"}">>, open + 1)
    IN  IF open = 0 \/ close = 0 THEN <<>>
        ELSE NamesIn(SubSeq(lines, open + 1, close - 1), "    ", "(rt, ctx);")

\* PackageCollection.getCore returns: @yaje/core is tracked and native.
HasCore(pkgs) ==
    \E i \in DOMAIN pkgs : pkgs[i].packageJSON.name = Core /\ pkgs[i].isNative

\* buildEntryPoint: main.c is written and compiled; main.o joins the modules.
BuildEntryPoint ==
    /\ dPc = "entry"
    /\ HasCore(packages)
    /\ mainC' = generateEntryPoint(loadingFunctions)
    /\ dSpawns' = Append(dSpawns, Spawn("entry", 0))
    /\ modules' = Append(modules, EntryPointObject)
    /\ dPc' = "link"
    /\ UNCHANGED <<dTree, dTarget, packages, dCall, dStack, dIdx, loadingFunctions, dIterated,
                   dVisits, libraries, linkArgs>>
    /\ UNCHANGED exceptDiscovery

\* buildEntryPoint: main.c is written and its compile fails: compileFile
\* throws and buildNativeCode returns false.
BuildEntryPointFails ==
    /\ dPc = "entry"
    /\ HasCore(packages)
    /\ mainC' = generateEntryPoint(loadingFunctions)
    /\ dSpawns' = Append(dSpawns, Spawn("entry", 1))
    /\ dPc' = "failed"
    /\ UNCHANGED <<dTree, dTarget, packages, dCall, dStack, dIdx, loadingFunctions, dIterated,
                   dVisits, modules, libraries, linkArgs>>
    /\ UNCHANGED exceptDiscovery

\* buildEntryPoint: packages.getCore() throws: buildNativeCode returns false.
BuildEntryPointNoCore ==
    /\ dPc = "entry"
    /\ ~HasCore(packages)
    /\ dPc' = "failed"
    /\ UNCHANGED <<dTree, dTarget, packages, dCall, dStack, dIdx, loadingFunctions, dIterated,
                   dVisits, nativeVars>>
    /\ UNCHANGED exceptDiscovery

\* The executable's path in targetFolder.
Executable(target) ==
    <<"a">> \o (IF target.platform = Windows THEN <<".exe">> ELSE <<>>)

getBaseLFlags(target) == <<<<"-g">>>>

\* linkFiles: the arguments clang is called with.
LinkArguments(mods, executableFile, flags) ==
    mods \o flags \o <<<<"-o">>, executableFile>>

\* linkModules succeeds: build returns 0.
LinkModules ==
    /\ dPc = "link"
    /\ linkArgs' = LinkArguments(modules, Executable(BuildTarget),
                                 getBaseLFlags(BuildTarget) \o libraries)
    /\ dSpawns' = Append(dSpawns, Spawn("link", 0))
    /\ dPc' = "done"
    /\ UNCHANGED <<dTree, dTarget, packages, dCall, dStack, dIdx, loadingFunctions, dIterated,
                   dVisits, modules, libraries, mainC>>
    /\ UNCHANGED exceptDiscovery

\* The linker exits non-zero: buildNativeCode returns false.
LinkModulesFails ==
    /\ dPc = "link"
    /\ linkArgs' = LinkArguments(modules, Executable(BuildTarget),
                                 getBaseLFlags(BuildTarget) \o libraries)
    /\ dSpawns' = Append(dSpawns, Spawn("link", 1))
    /\ dPc' = "failed"
    /\ UNCHANGED <<dTree, dTarget, packages, dCall, dStack, dIdx, loadingFunctions, dIterated,
                   dVisits, modules, libraries, mainC>>
    /\ UNCHANGED exceptDiscovery

IdleDiscovery ==
    /\ dTree = <<>>
    /\ dTarget = Null
    /\ packages = <<>>
    /\ dCall = NoCall
    /\ dStack = <<>>
    /\ dPc = "off"
    /\ dIdx = 0
    /\ loadingFunctions = <<>>
    /\ dIterated = <<>>
    /\ dVisits = <<>>
    /\ modules = <<>>
    /\ libraries = <<>>
    /\ mainC = Missing
    /\ linkArgs = <<>>
    /\ dSpawns = <<>>

(***************************************************************************)
(* Embedding the bundle (embedFile)                                        *)
(***************************************************************************)
\* Bound: the number of bytes of the content.
MaxContent == 3

\* The byte values the contents of the model are made of.
Bytes == {0, 10, 171, 255}

HexDigits == <<"0", "1", "2", "3", "4", "5", "6", "7", "8", "9",
               "a", "b", "c", "d", "e", "f">>

\* Number.prototype.toString(16)
RECURSIVE Hexadecimal(_)
Hexadecimal(n) ==
    IF n < 16 THEN <<HexDigits[n + 1]>>
    ELSE Hexadecimal(n \div 16) \o <<HexDigits[(n % 16) + 1]>>

\* String.prototype.padStart(width, pad), pad one character.
RECURSIVE PadStart(_, _, _)
PadStart(str, width, pad) ==
    IF Len(str) >= width THEN str ELSE PadStart(<<pad>> \o str, width, pad)

\* The loop of embedFile from byte i on: "0x", two hex digits, ",".
RECURSIVE WriteBytes(_, _)
WriteBytes(content, i) ==
    IF i > Len(content) THEN <<>>
    ELSE <<"0x">> \o PadStart(Hexadecimal(content[i]), 2, "0") \o <<",">>
         \o WriteBytes(content, i + 1)

\* An embedFile that leaves out the closing 0x00.
embedFileNoSentinel(content, prefix) ==
    <<"size_t ", prefix, "_LENGTH = ">> \o Decimal(Len(content)) \o <<";\n\n">>
    \o <<"unsigned char ", prefix, "_DATA[] = {">>
    \o WriteBytes(content, 1)
    \o <<"};">>

\* embedFile: everything it writes to clang's stdin, in order.
embedFile(content, prefix) ==
    <<"size_t ", prefix, "_LENGTH = ">> \o Decimal(Len(content)) \o <<";\n\n">>
    \o <<"unsigned char ", prefix, "_DATA[] = {">>
    \o WriteBytes(content, 1)
    \o <<"0x00">>
    \o <<"};">>

Prefixes == {"JS_BUNDLE", "P"}

InitEmbed ==
    /\ eContent \in SeqsUpTo(Bytes, MaxContent)
    /\ ePrefix \in Prefixes
    /\ eStdin = <<>>
    /\ ePc = "call"

\* embedFile spawns clang and writes the source to its stdin.
EmbedFile ==
    /\ ePc = "call"
    /\ eStdin' = embedFile(eContent, ePrefix)
    /\ ePc' = "piped"
    /\ UNCHANGED <<eContent, ePrefix>>
    /\ UNCHANGED exceptEmbed

\* clang closes with code 0: the promise resolves.
EmbedResolves ==
    /\ ePc = "piped"
    /\ ePc' = "resolved"
    /\ UNCHANGED <<eContent, ePrefix, eStdin>>
    /\ UNCHANGED exceptEmbed

\* clang closes with another code: the promise rejects.
EmbedRejects ==
    /\ ePc = "piped"
    /\ ePc' = "rejected"
    /\ UNCHANGED <<eContent, ePrefix, eStdin>>
    /\ UNCHANGED exceptEmbed

IdleEmbed ==
    /\ eContent = <<>>
    /\ ePrefix = ""
    /\ eStdin = <<>>
    /\ ePc = "off"

(***************************************************************************)
(* The accessors of PackageCollection                                      *)
(***************************************************************************)
\* Bound: the number of packages of a collection.
MaxPackages == 3

\* An accessor returns a package or throws an Error.
Returned(pkg) == [threw |-> FALSE, value |-> pkg]

Thrown(message) == [threw |-> TRUE, error |-> message]

\* Map.get, undefined when the name is not a key.
PackagesGet(pkgs, pkgName) ==
    IF Has(pkgs, pkgName)
    THEN Returned(pkgs[CHOOSE i \in DOMAIN pkgs : pkgs[i].packageJSON.name = pkgName])
    ELSE Thrown("undefined")

\* getCore that does not look at isNative.
getCoreOfAnyKind(pkgs) ==
    LET pkg == PackagesGet(pkgs, Core)
    IN  IF pkg.threw THEN Thrown("'@yaje/core' could not be found as package")
        ELSE Returned(pkg.value)

getCore(pkgs) ==
    LET pkg == PackagesGet(pkgs, Core)
    IN  IF pkg.threw THEN Thrown("'@yaje/core' could not be found as package")
        ELSE IF ~pkg.value.isNative THEN Thrown("'@yaje/core' is not a native package")
        ELSE Returned(pkg.value)

\* The loop over packages.values(), from the i-th package on.
RECURSIVE BundlerFrom(_, _)
BundlerFrom(pkgs, i) ==
    IF i > Len(pkgs) THEN Thrown("No compatible bundler is installed.")
    ELSE IF pkgs[i].isBundler THEN Returned(pkgs[i])
    ELSE BundlerFrom(pkgs, i + 1)

getBundler(pkgs) == BundlerFrom(pkgs, 1)

\* The packages that are put into the collection of the model.
CollectionNames == {Core, "a", "b"}

CollectionPackages ==
    {TrackedPackage(Manifest(n, <<>>, b, NoScript), Installed(n)) :
        n \in CollectionNames, b \in BOOLEAN}
    \cup {NativeTrackedPackage(Manifest(n, <<>>, b, PlainScript), Installed(n),
                               CompleteResult(n, Installed(n))) :
            n \in CollectionNames, b \in BOOLEAN}

NoResult == [threw |-> FALSE, none |-> TRUE]

InitCollection ==
    /\ kPackages = <<>>
    /\ kBefore = <<>>
    /\ kResult = NoResult
    /\ kPc = "set"

\* PackageCollection.set
CollectionSet ==
    /\ \E pkg \in CollectionPackages :
         /\ Has(kPackages, pkg.packageJSON.name) \/ Len(kPackages) < MaxPackages
         /\ kPackages' = PackagesSet(kPackages, pkg)
    /\ kBefore' = kPackages'
    /\ kResult' = NoResult
    /\ kPc' = "set"
    /\ UNCHANGED exceptCollection

\* PackageCollection.getCore
GetCore ==
    /\ kBefore' = kPackages
    /\ kResult' = getCore(kPackages)
    /\ kPc' = "getCore"
    /\ UNCHANGED kPackages
    /\ UNCHANGED exceptCollection

\* PackageCollection.getBundler
GetBundler ==
    /\ kBefore' = kPackages
    /\ kResult' = getBundler(kPackages)
    /\ kPc' = "getBundler"
    /\ UNCHANGED kPackages
    /\ UNCHANGED exceptCollection

IdleCollection ==
    /\ kPackages = <<>>
    /\ kBefore = <<>>
    /\ kResult = NoResult
    /\ kPc = "off"

(***************************************************************************)
(* The run of the generated main                                           *)
(***************************************************************************)
\* Bound: the number of loading functions of the generated entry point.
MaxLoadingFunctions == 2

LoadingFunctionNames == {<<"core", "_init">>, <<"console", "_init">>, <<"fs", "_init">>}

MainHead == <<"int main(int argc, char **argv) {">>

CtorStatement == <<"    yaje_core_ctor(&rt, &ctx);">>

LoadModulesStatement == <<"    yaje_core_load_modules(rt, ctx);">>

ExecuteStatement == <<"    int exit_code = yaje_core_execute(rt, ctx);">>

FreeStatement == <<"    yaje_core_free(&rt, &ctx);">>

ReturnStatement == <<"    return exit_code;">>

\* The lines of main that are declarations or blank: they call nothing.
PlainStatements ==
    {<<"    JSRuntime *rt = NULL;">>, <<"    JSContext *ctx = NULL;">>, <<"    ">>}

\* A call of the trace, with what it returned (0 for a void function).
Call(function, result) == [function |-> function, result |-> result]

\* The value of a local that is not assigned yet.
Unassigned == 0 - 1

\* The line main is at.
Statement == Lines(rText)[rPc]

InitMain ==
    /\ rText \in {generateEntryPoint(fns) :
                     fns \in DistinctSeqsUpTo(LoadingFunctionNames, MaxLoadingFunctions)}
    /\ rPc = LineIndex(Lines(rText), MainHead, 1) + 1
    /\ rTrace = <<>>
    /\ rCode = Unassigned
    /\ rStatus = "running"
    /\ rResult = Unassigned

\* A declaration or a blank line.
MainPlainStatement ==
    /\ rStatus = "running"
    /\ Statement \in PlainStatements
    /\ rPc' = rPc + 1
    /\ UNCHANGED <<rText, rTrace, rCode, rStatus, rResult>>
    /\ UNCHANGED exceptMain

\* yaje_core_ctor makes the runtime and the context.
MainCtor ==
    /\ rStatus = "running"
    /\ Statement = CtorStatement
    /\ rTrace' = Append(rTrace, Call("yaje_core_ctor", 0))
    /\ rPc' = rPc + 1
    /\ UNCHANGED <<rText, rCode, rStatus, rResult>>
    /\ UNCHANGED exceptMain

\* yaje_core_ctor cannot make the runtime or the context: exit(1).
MainCtorExits ==
    /\ rStatus = "running"
    /\ Statement = CtorStatement
    /\ rTrace' = Append(rTrace, Call("yaje_core_ctor", 0))
    /\ rStatus' = "exited"
    /\ rResult' = 1
    /\ UNCHANGED <<rText, rPc, rCode>>
    /\ UNCHANGED exceptMain

\* yaje_core_load_modules calls the loading functions of its body.
MainLoadModules ==
    /\ rStatus = "running"
    /\ Statement = LoadModulesStatement
    /\ rTrace' = Append(rTrace, Call("yaje_core_load_modules", 0))
                 \o [i \in DOMAIN CallsOf(rText) |-> Call(CallsOf(rText)[i], 0)]
    /\ rPc' = rPc + 1
    /\ UNCHANGED <<rText, rCode, rStatus, rResult>>
    /\ UNCHANGED exceptMain

\* yaje_core_execute returns 0, or 1 when the bundle throws.
MainExecute ==
    /\ rStatus = "running"
    /\ Statement = ExecuteStatement
    /\ \E result \in {0, 1} :
         /\ rTrace' = Append(rTrace, Call("yaje_core_execute", result))
         /\ rCode' = result
    /\ rPc' = rPc + 1
    /\ UNCHANGED <<rText, rStatus, rResult>>
    /\ UNCHANGED exceptMain

MainFree ==
    /\ rStatus = "running"
    /\ Statement = FreeStatement
    /\ rTrace' = Append(rTrace, Call("yaje_core_free", 0))
    /\ rPc' = rPc + 1
    /\ UNCHANGED <<rText, rCode, rStatus, rResult>>
    /\ UNCHANGED exceptMain

MainReturn ==
    /\ rStatus = "running"
    /\ Statement = ReturnStatement
    /\ rStatus' = "returned"
    /\ rResult' = rCode
    /\ UNCHANGED <<rText, rPc, rTrace, rCode>>
    /\ UNCHANGED exceptMain

IdleMain ==
    /\ rText = <<>>
    /\ rPc = 0
    /\ rTrace = <<>>
    /\ rCode = Unassigned
    /\ rStatus = "off"
    /\ rResult = Unassigned

(***************************************************************************)
(* The bundler gateways                                                    *)
(***************************************************************************)
\* Bound: the number of artifacts a bundler produces.
MaxArtifacts == 2

Gateways == {"vite", "rollup", "webpack", "esbuild"}

\* An artifact of a bundler: a chunk or an asset, its file name ending in
\* ".js" or not; a chunk is written to bundle.js.
Artifacts ==
    {[js |-> TRUE, chunk |-> TRUE], [js |-> TRUE, chunk |-> FALSE],
     [js |-> FALSE, chunk |-> FALSE]}

\* path.join(genFolder, "bundle.js")
BundleJs == <<"gen", "/", "bundle.js">>

JsArtifacts(output) == {i \in DOMAIN output : output[i].js}

\* ViteCBG.bundle: awaits vite.build and returns the path.
ViteBundle(rejects, output) ==
    IF rejects THEN Thrown("vite.build") ELSE Returned(BundleJs)

\* RollupCBG.bundle
RollupBundle(rejects, output) ==
    IF rejects THEN Thrown("rollup")
    ELSE IF Len(output) # 1 \/ ~output[1].chunk
         THEN Thrown("Rollup did not produce exactly one JS chunk.")
         ELSE Returned(BundleJs)

\* WebpackCBG.bundle
WebpackBundle(rejects, output) ==
    IF rejects THEN Thrown("stats")
    ELSE IF Cardinality(JsArtifacts(output)) # 1
         THEN Thrown("Webpack did not produce exactly one JS file.")
         ELSE Returned(BundleJs)

\* EsbuildCBG.bundle
EsbuildBundle(rejects, output) ==
    IF rejects THEN Thrown("esbuild.build")
    ELSE IF Len(output) # 1 \/ ~output[1].js
         THEN Thrown("esbuild did not produce exactly one JS file.")
         ELSE Returned(BundleJs)

\* gateway.bundle of the gateway the build loaded
bundle(gateway, rejects, output) ==
    CASE gateway = "vite" -> ViteBundle(rejects, output)
      [] gateway = "rollup" -> RollupBundle(rejects, output)
      [] gateway = "webpack" -> WebpackBundle(rejects, output)
      [] gateway = "esbuild" -> EsbuildBundle(rejects, output)

InitGateway ==
    /\ bGateway \in Gateways
    /\ bArtifacts \in SeqsUpTo(Artifacts, MaxArtifacts)
    /\ bRejects \in BOOLEAN
    /\ bResult = NoResult
    /\ bPc = "output"

\* buildManagedCode: await gateway.bundle(rootPkg.packageJSON.main)
GatewayBundle ==
    /\ bPc = "output"
    /\ bResult' = bundle(bGateway, bRejects, bArtifacts)
    /\ bPc' = "bundle"
    /\ UNCHANGED <<bGateway, bArtifacts, bRejects>>
    /\ UNCHANGED exceptGateway

\* buildManagedCode returns the bundle file; build goes on to
\* buildNativeCode.
BuildManagedCodeReturns ==
    /\ bPc = "bundle"
    /\ ~bResult.threw
    /\ bPc' = "native"
    /\ UNCHANGED <<bGateway, bArtifacts, bRejects, bResult>>
    /\ UNCHANGED exceptGateway

\* buildManagedCode catches the rejection and returns false; build
\* returns 1.
BuildManagedCodeCatches ==
    /\ bPc = "bundle"
    /\ bResult.threw
    /\ bPc' = "return 1"
    /\ UNCHANGED <<bGateway, bArtifacts, bRejects, bResult>>
    /\ UNCHANGED exceptGateway

IdleGateway ==
    /\ bGateway = "vite"
    /\ bArtifacts = <<>>
    /\ bRejects = FALSE
    /\ bResult = NoResult
    /\ bPc = "idle"

(***************************************************************************)
(* One call of getDependencies                                             *)
(***************************************************************************)
\* The sources of the call: one that includes the header, one that does not.
ScanSources == {Path(1, <<"foo">>), Path(2, <<"foo", "2">>)}

\* The files of the call: the two sources and the header.
ScanFiles == [p \in ScanSources \cup {Header} |-> <<"a">>]

InitScan ==
    /\ sArgs \in {generateCompilerArguments(deps, module, getBaseCFlags(TargetString)) :
                    deps \in {<<>>, <<DependencyConfiguration>>},
                    module \in Configurations \cup ModuleConfigurations}
    /\ sSource \in ScanSources
    /\ sDirective \in Directives
    /\ sLine = <<>>
    /\ sResult = <<>>
    /\ sPc = "call"

\* getDependencies(args, source)
GetDependencies ==
    /\ sPc = "call"
    /\ sLine' = <<<<"-MM">>>> \o FilterArguments(sArgs) \o <<PathString(sSource)>>
    /\ sResult' = getDependencies(ScanFiles, sArgs, sSource, sDirective)
    /\ sPc' = "returned"
    /\ UNCHANGED <<sArgs, sSource, sDirective>>
    /\ UNCHANGED exceptScan

IdleScan ==
    /\ sArgs = <<>>
    /\ sSource = Path(0, <<>>)
    /\ sDirective = "relative"
    /\ sLine = <<>>
    /\ sResult = <<>>
    /\ sPc = "off"

(***************************************************************************)
(* The embed step of buildNativeCode and its cache                         *)
(***************************************************************************)
\* Bound: the number of builds in a row.
MaxBuilds == 3

\* A file is the list of what it holds: empty when the file does not exist.
NoFile == <<>>

File(content) == <<content>>

\* The bytes of a bundle.
BundleBytes == {<<"a">>, <<"b">>}

\* The files the embed step reads.
StepFiles(bundleFile, object, hashFile) ==
    [bundle |-> bundleFile, object |-> object, hashFile |-> hashFile]

\* crypto.createHash("sha256").update(bundleContent).digest("hex")
CurrentHash(bundleFile) == Sha256(bundleFile[1])

\* skip: bundle.o and bundle.hash exist and the stored hash is the current one.
skipWithoutObject(object, hashFile, current) ==
    hashFile # NoFile /\ hashFile[1] = current

skip(object, hashFile, current) ==
    object # NoFile /\ hashFile # NoFile /\ hashFile[1] = current

InitStep ==
    /\ oBundle \in {File(b) : b \in BundleBytes} \cup {NoFile}
    /\ oObject = NoFile
    /\ oHashFile = NoFile
    /\ oModules = <<>>
    /\ oEmbed = "none"
    /\ oBefore = StepFiles(oBundle, oObject, oHashFile)
    /\ oPc = "embed"
    /\ oBuilds = 1

\* fs.readFileSync(bundleFile) throws: buildNativeCode returns false.
EmbedStepReadFails ==
    /\ oPc = "embed"
    /\ oBundle = NoFile
    /\ oPc' = "failed"
    /\ UNCHANGED <<oBundle, oObject, oHashFile, oModules, oEmbed, oBefore, oBuilds>>
    /\ UNCHANGED exceptStep

\* The stored hash is the current one: nothing is embedded, bundle.o joins
\* the modules.
EmbedStepSkips ==
    /\ oPc = "embed"
    /\ oBundle # NoFile
    /\ skip(oObject, oHashFile, CurrentHash(oBundle))
    /\ oModules' = Append(oModules, BundleObject)
    /\ oPc' = "done"
    /\ UNCHANGED <<oBundle, oObject, oHashFile, oEmbed, oBefore, oBuilds>>
    /\ UNCHANGED exceptStep

\* embedFile resolves, bundle.hash is written, bundle.o joins the modules.
EmbedStepEmbeds ==
    /\ oPc = "embed"
    /\ oBundle # NoFile
    /\ ~skip(oObject, oHashFile, CurrentHash(oBundle))
    /\ oEmbed' = "resolved"
    /\ oObject' = File(oBundle[1])
    /\ oHashFile' = File(CurrentHash(oBundle))
    /\ oModules' = Append(oModules, BundleObject)
    /\ oPc' = "done"
    /\ UNCHANGED <<oBundle, oBefore, oBuilds>>
    /\ UNCHANGED exceptStep

\* embedFile rejects: clang leaves the object as it was or removes it;
\* buildNativeCode returns false.
EmbedStepEmbedRejects ==
    /\ oPc = "embed"
    /\ oBundle # NoFile
    /\ ~skip(oObject, oHashFile, CurrentHash(oBundle))
    /\ oEmbed' = "rejected"
    /\ oObject' \in {oObject, NoFile}
    /\ oPc' = "failed"
    /\ UNCHANGED <<oBundle, oHashFile, oModules, oBefore, oBuilds>>
    /\ UNCHANGED exceptStep

\* embedFile resolves and fs.writeFileSync(bundleHashFile) throws:
\* buildNativeCode returns false.
EmbedStepWriteFails ==
    /\ oPc = "embed"
    /\ oBundle # NoFile
    /\ ~skip(oObject, oHashFile, CurrentHash(oBundle))
    /\ oEmbed' = "resolved"
    /\ oObject' = File(oBundle[1])
    /\ oPc' = "failed"
    /\ UNCHANGED <<oBundle, oHashFile, oModules, oBefore, oBuilds>>
    /\ UNCHANGED exceptStep

\* The next build reaches its embed step: the gateway has written the bundle
\* again (or has written none), modules is a new list.
NextBuild ==
    /\ oPc \in {"done", "failed", "between"}
    /\ oBuilds < MaxBuilds
    /\ oBundle' \in {File(b) : b \in BundleBytes} \cup {NoFile}
    /\ oModules' = <<>>
    /\ oEmbed' = "none"
    /\ oBefore' = StepFiles(oBundle', oObject, oHashFile)
    /\ oPc' = "embed"
    /\ oBuilds' = oBuilds + 1
    /\ UNCHANGED <<oObject, oHashFile>>
    /\ UNCHANGED exceptStep

\* Between two builds bundle.o is removed.
RemoveBundleObject ==
    /\ oPc \in {"done", "failed", "between"}
    /\ oObject # NoFile
    /\ oObject' = NoFile
    /\ oPc' = "between"
    /\ UNCHANGED <<oBundle, oHashFile, oModules, oEmbed, oBefore, oBuilds>>
    /\ UNCHANGED exceptStep

\* Between two builds bundle.hash is removed.
RemoveBundleHash ==
    /\ oPc \in {"done", "failed", "between"}
    /\ oHashFile # NoFile
    /\ oHashFile' = NoFile
    /\ oPc' = "between"
    /\ UNCHANGED <<oBundle, oObject, oModules, oEmbed, oBefore, oBuilds>>
    /\ UNCHANGED exceptStep

IdleStep ==
    /\ oBundle = NoFile
    /\ oObject = NoFile
    /\ oHashFile = NoFile
    /\ oModules = <<>>
    /\ oEmbed = "none"
    /\ oBefore = StepFiles(NoFile, NoFile, NoFile)
    /\ oPc = "off"
    /\ oBuilds = 0

(***************************************************************************)
(* The subprocesses of a build                                             *)
(***************************************************************************)
\* Bound: the number of native modules of a build.
MaxNativeModules == 1

\* Bound: the number of sources of a native module.
MaxModuleSources == 2

\* The places where build spawns a child, and the program each one runs.
SpawnSites ==
    {"isClangInstalled", "isArchiverInstalled", "getDependencies", "compileFile",
     "bundleFiles", "embedFile", "entry getDependencies", "entry compileFile",
     "linkFiles"}

Program(site) ==
    IF site \in {"isArchiverInstalled", "bundleFiles"} THEN "llvm-ar" ELSE "clang"

\* The places where build ends.
Ends == {"return 0", "return 1", "threw"}

\* An entry of the log of a build.
Event(site, module) == [site |-> site, module |-> module]

\* subprocess.run and embedFile: the child is spawned and the caller awaits
\* the promise, which settles when the child closes.
runDetached(site) == [at |-> site, awaiting |-> FALSE]

run(site) == [at |-> site, awaiting |-> TRUE]

At(site) == [at |-> site, awaiting |-> FALSE]

\* path.join(output.objFolder, module.packageJSON.name)
ObjectFolder(module) == <<"obj", "/", "module">> \o Decimal(module)

\* crypto.hash("SHA256", objectFolder, "base64").replace("=", "").substring(0, 12)
archiveHash(objectFolder) == Sha256(objectFolder)

\* path.join(libraryFolder, `lib_${archiveHash}.a`)
archive(libraryFolder, objectFolder) ==
    <<libraryFolder, "/", "lib_", archiveHash(objectFolder), ".a">>

\* The end of one iteration of the loop over module.sources: the archiver
\* comes after every source, whatever is left.
AfterSourceArchivingEach(plan, module, source) == "bundleFiles"

\* The end of one iteration of the loop over module.sources: the next
\* source, or the archiver after the last one.
AfterSource(plan, module, source) ==
    IF source < plan[module] THEN "getDependencies" ELSE "bundleFiles"

\* Where build goes on when the child of a site has closed with a code.
Continue(site, code) ==
    CASE site = "isClangInstalled" ->
            IF code = 0 THEN "isArchiverInstalled" ELSE "return 1"
      [] site = "isArchiverInstalled" -> IF code = 0 THEN "module" ELSE "return 1"
      [] site = "getDependencies" -> "skip"
      [] site = "compileFile" ->
            IF code = 0 THEN AfterSource(uPlan, uModule, uSource) ELSE "return 1"
      [] site = "bundleFiles" -> IF code = 0 THEN "module" ELSE "return 1"
      [] site = "embedFile" -> IF code = 0 THEN "buildEntryPoint" ELSE "return 1"
      [] site = "entry getDependencies" -> "entry skip"
      [] site = "entry compileFile" -> IF code = 0 THEN "linkFiles" ELSE "return 1"
      [] site = "linkFiles" -> IF code = 0 THEN "return 0" ELSE "return 1"

InitProcess ==
    /\ uPlan \in SeqsUpTo(0..MaxModuleSources, MaxNativeModules)
    /\ uPc = At("checkPackageJSON")
    /\ uModule = 0
    /\ uSource = 0
    /\ uChildren = <<>>
    /\ uLog = <<>>
    /\ uArchives = <<>>
    /\ uPrevArchives = <<>>
    /\ uBuilds = 1

\* build: await checkPackageJSON; it rejects and build returns 1, or it
\* resolves.
Discovery ==
    /\ uPc = At("checkPackageJSON")
    /\ uPc' \in {At("buildManagedCode"), At("return 1")}
    /\ UNCHANGED <<uPlan, uModule, uSource, uChildren, uLog, uArchives, uPrevArchives, uBuilds>>
    /\ UNCHANGED exceptProcess

\* build: generateOutputInformation throws, or await buildManagedCode gives
\* false or the bundle file; buildNativeCode starts with its probes.
Bundling ==
    /\ uPc = At("buildManagedCode")
    /\ uPc' \in {At("isClangInstalled"), At("return 1"), At("threw")}
    /\ UNCHANGED <<uPlan, uModule, uSource, uChildren, uLog, uArchives, uPrevArchives, uBuilds>>
    /\ UNCHANGED exceptProcess

\* child_process.spawn at one of the sites.
SpawnChild ==
    /\ uPc.at \in SpawnSites
    /\ ~uPc.awaiting
    /\ uChildren' = Append(uChildren, Event(uPc.at, uModule))
    /\ uLog' = Append(uLog, Event(uPc.at, uModule))
    /\ uPc' = run(uPc.at)
    /\ UNCHANGED <<uPlan, uModule, uSource, uArchives, uPrevArchives, uBuilds>>
    /\ UNCHANGED exceptProcess

\* The "close" event of a child: the promise build awaits settles and build
\* goes on; after the archiver, compileModule returns the archive.
CloseChild ==
    /\ uChildren # <<>>
    /\ uChildren' = Tail(uChildren)
    /\ \E code \in {0, 1} :
         IF uPc.awaiting /\ Head(uChildren).site = uPc.at
         THEN /\ uPc' = At(Continue(uPc.at, code))
              /\ uSource' = IF uPc'.at = "getDependencies" /\ uPc.at = "compileFile"
                            THEN uSource + 1 ELSE uSource
              /\ IF uPc.at = "bundleFiles" /\ code = 0
                 THEN /\ uArchives' = Append(uArchives, archive("mod", ObjectFolder(uModule)))
                      /\ uModule' = uModule + 1
                 ELSE UNCHANGED <<uArchives, uModule>>
         ELSE UNCHANGED <<uPc, uSource, uArchives, uModule>>
    /\ UNCHANGED <<uPlan, uLog, uPrevArchives, uBuilds>>
    /\ UNCHANGED exceptProcess

\* The "error" event of a child that could not be spawned: the probe returns
\* false, a rejected run is caught by buildNativeCode.
SpawnError ==
    /\ uPc.at \in SpawnSites
    /\ ~uPc.awaiting
    /\ uPc' = At(IF uPc.at = "embedFile" THEN "threw" ELSE "return 1")
    /\ UNCHANGED <<uPlan, uModule, uSource, uChildren, uLog, uArchives, uPrevArchives, uBuilds>>
    /\ UNCHANGED exceptProcess

\* buildNativeCode, loop over packages: the next native module.  Its
\* linkLibraries are iterated (a TypeError without them), then compileModule
\* starts on its sources.
NativeModuleStarts ==
    /\ uPc = At("module")
    /\ IF uModule = 0 THEN uModule' = 1 ELSE UNCHANGED uModule
    /\ uModule' <= Len(uPlan)
    /\ \/ /\ uPc' = At(IF uPlan[uModule'] > 0 THEN "getDependencies" ELSE "bundleFiles")
          /\ uSource' = IF uPlan[uModule'] > 0 THEN 1 ELSE 0
       \/ /\ uPc' = At("threw")
          /\ UNCHANGED uSource
    /\ UNCHANGED <<uPlan, uChildren, uLog, uArchives, uPrevArchives, uBuilds>>
    /\ UNCHANGED exceptProcess

\* buildNativeCode, after the loop over packages: the embed step reads the
\* bundle and skips, embeds, or fails to read.
EmbedStep ==
    /\ uPc = At("module")
    /\ IF uModule = 0 THEN uModule' = 1 ELSE UNCHANGED uModule
    /\ uModule' > Len(uPlan)
    /\ uPc' \in {At("buildEntryPoint"), At("embedFile"), At("return 1")}
    /\ UNCHANGED <<uPlan, uSource, uChildren, uLog, uArchives, uPrevArchives, uBuilds>>
    /\ UNCHANGED exceptProcess

\* compileModule: skip is decided for the source.
SkipOrCompile ==
    /\ uPc = At("skip")
    /\ \/ /\ uPc' = At(AfterSource(uPlan, uModule, uSource))
          /\ uSource' = IF uPc'.at = "getDependencies" THEN uSource + 1 ELSE uSource
          /\ uLog' = Append(uLog, Event("skip", uModule))
       \/ /\ uPc' = At("compileFile")
          /\ UNCHANGED <<uSource, uLog>>
    /\ UNCHANGED <<uPlan, uModule, uChildren, uArchives, uPrevArchives, uBuilds>>
    /\ UNCHANGED exceptProcess

\* buildEntryPoint: packages.getCore() throws, or main.c is written and
\* scanned.
EntryPoint ==
    /\ uPc = At("buildEntryPoint")
    /\ uPc' \in {At("entry getDependencies"), At("return 1")}
    /\ UNCHANGED <<uPlan, uModule, uSource, uChildren, uLog, uArchives, uPrevArchives, uBuilds>>
    /\ UNCHANGED exceptProcess

\* buildEntryPoint: skip is decided for main.c.
EntrySkipOrCompile ==
    /\ uPc = At("entry skip")
    /\ uPc' \in {At("linkFiles"), At("entry compileFile")}
    /\ UNCHANGED <<uPlan, uModule, uSource, uChildren, uLog, uArchives, uPrevArchives, uBuilds>>
    /\ UNCHANGED exceptProcess

\* build is run again.
BuildAgain ==
    /\ uPc.at \in Ends
    /\ uChildren = <<>>
    /\ uBuilds < MaxBuilds
    /\ uBuilds' = uBuilds + 1
    /\ uPc' = At("checkPackageJSON")
    /\ uModule' = 0
    /\ uSource' = 0
    /\ uLog' = <<>>
    /\ uPrevArchives' = uArchives
    /\ uArchives' = <<>>
    /\ UNCHANGED <<uPlan, uChildren>>
    /\ UNCHANGED exceptProcess

IdleProcess ==
    /\ uPlan = <<>>
    /\ uPc = At("off")
    /\ uModule = 0
    /\ uSource = 0
    /\ uChildren = <<>>
    /\ uLog = <<>>
    /\ uArchives = <<>>
    /\ uPrevArchives = <<>>
    /\ uBuilds = 0

(***************************************************************************)
(* generateCompilerArguments and the kinds of macro values                 *)
(***************************************************************************)
\* Values a build script can store with defineMacro besides true, numbers
\* and strings; typeof gives "boolean" for false and "object" for null.
MacroFalse == [type |-> "boolean", false |-> TRUE]

MacroNull == [type |-> "object", null |-> TRUE]

MacroUndefined == [type |-> "undefined"]

MacroObject == [type |-> "object"]

AnyMacroValues ==
    MacroValues \cup {MacroFalse, MacroNull, MacroUndefined, MacroObject}

\* The default branch of the switch over typeof macroValue.
UnknownMacroType(entry) == entry.value.type \notin {"boolean", "number", "string"}

\* generateCompilerArguments, with its throw: the first entry of an unknown
\* type ends the call.
generateCompilerArgumentsOrThrow(dependencies, module, flags) ==
    LET configs == Append(dependencies, module)
    IN  IF \E c \in DOMAIN configs : \E i \in DOMAIN configs[c].defineMacros :
               UnknownMacroType(configs[c].defineMacros[i])
        THEN Thrown("Unknown macro type")
        ELSE Returned(generateCompilerArguments(dependencies, module, flags))

InitMacro ==
    /\ mModule \in
         {Configuration(<<>>, macros, <<>>) :
            macros \in {q \in SeqsUpTo({MacroEntry(n, v) :
                                          n \in {<<"A">>, <<"B">>}, v \in AnyMacroValues},
                                       MaxMacros) :
                          \A i, j \in DOMAIN q : i # j => q[i].name # q[j].name}}
    /\ mResult = NoResult
    /\ mPc = "call"

\* generateCompilerArguments([], module, [])
SerializeMacros ==
    /\ mPc = "call"
    /\ mResult' = generateCompilerArgumentsOrThrow(<<>>, mModule, <<>>)
    /\ mPc' = "returned"
    /\ UNCHANGED mModule
    /\ UNCHANGED exceptMacro

IdleMacro ==
    /\ mModule = <<>>
    /\ mResult = NoResult
    /\ mPc = "off"

(***************************************************************************)
(* The module-local flags of a native module                               *)
(***************************************************************************)
\* The lists a build script gives to setCFlags.
CFlagLists == {<<>>, <<<<"-O2">>>>, <<<<"-O2">>, <<"-ffast-math">>>>}

\* The lists a build script gives to setLFlags.
LFlagLists == {<<>>, <<<<"-static">>>>, <<<<"-static">>, <<"-s">>>>}

\* CFG.complete(): the CFGResult with the flags the script has set.
InstructionsWithFlags(includeDirs, cFlags, lFlags) ==
    [name |-> <<"m">>, sources |-> <<Path(1, <<"foo">>)>>, libraryLookup |-> <<>>,
     includeDirs |-> includeDirs, defineMacros |-> <<>>, loadingFunctions |-> <<>>,
     cFlags |-> cFlags, lFlags |-> lFlags]

InitFlags ==
    /\ fInstructions \in
         {InstructionsWithFlags(dirs, cFlags, lFlags) :
            dirs \in DistinctSeqsUpTo({<<"/inc">>, <<"/quickjs">>}, MaxIncludeDirs),
            cFlags \in CFlagLists, lFlags \in LFlagLists}
    /\ fCompileArgs = <<>>
    /\ fLinkArgs = <<>>
    /\ fPc = "module"

\* compileModule of the driver and of the compiler: the source of the module
\* is compiled with generateCompilerArguments(dependencies, module,
\* getBaseCFlags(target)).
FlagsCompileModule ==
    /\ fPc = "module"
    /\ fCompileArgs' =
         generateCompilerArguments(<<>>, fInstructions, getBaseCFlags(TargetString))
         \o <<PathString(fInstructions.sources[1]), <<"-o">>, ObjectPath(<<"foo">>)>>
    /\ fPc' = "link"
    /\ UNCHANGED <<fInstructions, fLinkArgs>>
    /\ UNCHANGED exceptFlags

\* buildNativeCode: the link, with getBaseLFlags(target) and the libraries.
FlagsLinkModules ==
    /\ fPc = "link"
    /\ fLinkArgs' =
         LinkArguments(<<Archive(fInstructions.name), BundleObject, EntryPointObject>>,
                       Executable(BuildTarget), getBaseLFlags(BuildTarget) \o <<>>)
    /\ fPc' = "done"
    /\ UNCHANGED <<fInstructions, fCompileArgs>>
    /\ UNCHANGED exceptFlags

IdleFlags ==
    /\ fInstructions = <<>>
    /\ fCompileArgs = <<>>
    /\ fLinkArgs = <<>>
    /\ fPc = "off"

(***************************************************************************)
(* The CFG object of a build script                                        *)
(***************************************************************************)
\* Bound: the calls a build script makes before complete().
MaxCalls == 3

\* The directories of the project, by their relative paths, and what
\* fs.readdirSync lists in each; every other path is no directory.
ProjectDirs == {<<"src">>, <<"src", "sub">>, <<"include">>}

Entry(fileName, isDirectory) == [fileName |-> fileName, isDirectory |-> isDirectory]

Readdir(dir) ==
    CASE dir = <<"src">> ->
            <<Entry("a.c", FALSE), Entry("a.h", FALSE), Entry("b.c", FALSE),
              Entry("sub", TRUE)>>
      [] dir = <<"src", "sub">> -> <<Entry("c.c", FALSE)>>
      [] dir = <<"include">> -> <<Entry("a.h", FALSE)>>

\* The relative paths a script passes: the directories and one path that is
\* no directory.
RelativePaths == ProjectDirs \cup {<<"missing">>}

\* fileName.endsWith(".c")
EndsWithC(fileName) == fileName \in {"a.c", "b.c", "c.c"}

\* Set.prototype.add: a value that is there keeps its place.
SetAdd(set, value) == IF value \in RangeOf(set) THEN set ELSE Append(set, value)

\* lookupSourceFolder: the sources after the entries from the i-th on of the
\* directory were looked at.
RECURSIVE lookupSourceFolder(_, _, _, _)
lookupSourceFolder(sources, sourceDir, recursive, i) ==
    IF i > Len(Readdir(sourceDir)) THEN sources
    ELSE LET entry == Readdir(sourceDir)[i]
             filePath == Append(sourceDir, entry.fileName)
             added == IF EndsWithC(entry.fileName) THEN SetAdd(sources, filePath)
                      ELSE sources
             below == IF recursive /\ entry.isDirectory
                      THEN lookupSourceFolder(added, filePath, TRUE, 1)
                      ELSE added
         IN  lookupSourceFolder(below, sourceDir, recursive, i + 1)

\* The names a script passes to setLoadingFunctions, as lists of characters.
LoadingNames == {<<"f">>, <<"f", "_", "1">>, <<"1", "f">>, <<"f", "-", "g">>, <<>>}

NewCFG ==
    [sources |-> <<>>, libraryLookup |-> <<>>, includeDirs |-> <<>>,
     defineMacros |-> <<>>, loadingFunctions |-> <<>>]

InitConfig ==
    /\ cfg = NewCFG
    /\ cfgResult = NewCFG
    /\ cfgCalls = 0
    /\ cfgPc = "script"

\* addSource(relativePath, recursive)
AddSource ==
    /\ cfgPc = "script"
    /\ cfgCalls < MaxCalls
    /\ cfgCalls' = cfgCalls + 1
    /\ \E relativePath \in RelativePaths, recursive \in BOOLEAN :
         IF relativePath \in ProjectDirs
         THEN /\ cfg' = [cfg EXCEPT
                           !.sources = lookupSourceFolder(@, relativePath, recursive, 1)]
              /\ UNCHANGED cfgPc
         ELSE /\ cfgPc' = "threw"
              /\ UNCHANGED cfg
    /\ UNCHANGED cfgResult
    /\ UNCHANGED exceptConfig

\* addIncludeDir(relativePath)
AddIncludeDir ==
    /\ cfgPc = "script"
    /\ cfgCalls < MaxCalls
    /\ cfgCalls' = cfgCalls + 1
    /\ \E relativePath \in RelativePaths :
         IF relativePath \in ProjectDirs
         THEN /\ cfg' = [cfg EXCEPT !.includeDirs = SetAdd(@, relativePath)]
              /\ UNCHANGED cfgPc
         ELSE /\ cfgPc' = "threw"
              /\ UNCHANGED cfg
    /\ UNCHANGED cfgResult
    /\ UNCHANGED exceptConfig

\* addLibraryLookup(relativePath)
AddLibraryLookup ==
    /\ cfgPc = "script"
    /\ cfgCalls < MaxCalls
    /\ cfgCalls' = cfgCalls + 1
    /\ \E relativePath \in RelativePaths :
         IF relativePath \in ProjectDirs
         THEN /\ cfg' = [cfg EXCEPT !.libraryLookup = SetAdd(@, relativePath)]
              /\ UNCHANGED cfgPc
         ELSE /\ cfgPc' = "threw"
              /\ UNCHANGED cfg
    /\ UNCHANGED cfgResult
    /\ UNCHANGED exceptConfig

\* defineMacro(name, value): the property is set; a name that is there
\* keeps its place among the entries.
DefineMacro ==
    /\ cfgPc = "script"
    /\ cfgCalls < MaxCalls
    /\ cfgCalls' = cfgCalls + 1
    /\ \E macroName \in {<<"A">>}, value \in MacroValues :
         cfg' = [cfg EXCEPT !.defineMacros =
                    IF \E i \in DOMAIN @ : @[i].name = macroName
                    THEN [i \in DOMAIN @ |->
                            IF @[i].name = macroName THEN MacroEntry(macroName, value)
                            ELSE @[i]]
                    ELSE Append(@, MacroEntry(macroName, value))]
    /\ UNCHANGED <<cfgResult, cfgPc>>
    /\ UNCHANGED exceptConfig

\* setLoadingFunctions(...loadingFunctions)
SetLoadingFunctions ==
    /\ cfgPc = "script"
    /\ cfgCalls < MaxCalls
    /\ cfgCalls' = cfgCalls + 1
    /\ \E names \in SeqsUpTo(LoadingNames, 2) :
         cfg' = [cfg EXCEPT !.loadingFunctions = names]
    /\ UNCHANGED <<cfgResult, cfgPc>>
    /\ UNCHANGED exceptConfig

\* complete()
Complete ==
    /\ cfgPc = "script"
    /\ cfgResult' = cfg
    /\ cfgPc' = "completed"
    /\ UNCHANGED <<cfg, cfgCalls>>
    /\ UNCHANGED exceptConfig

IdleConfig ==
    /\ cfg = NewCFG
    /\ cfgResult = NewCFG
    /\ cfgCalls = 0
    /\ cfgPc = "off"

(***************************************************************************)
(* The build and cdb commands of the CLI                                   *)
(***************************************************************************)
\* The strings of the -t option: no option (or an empty one), and one to
\* MaxParts parts joined by hyphens.
TargetOptions ==
    {NoString}
    \cup {Join(ps, Hyphen) :
            ps \in SeqsUpTo({<<"x86_64">>, <<"linux">>}, MaxParts) \ {<<>>}}

\* options.target ? parseTargetTriple(options.target) : getHostTargetTriple()
CommandTarget(option) ==
    IF option # NoString THEN parseTargetTriple(option) ELSE BuildTarget

\* The exit code of a process that ends without process.exit.
ExitCodeAtEnd == 0

InitCommand ==
    /\ xCommand \in {"build", "cdb"}
    /\ xOption \in TargetOptions
    /\ xRan = FALSE
    /\ xExit = ExitCodeAtEnd
    /\ xPc = "action"

\* The action of the command: the target is null, a message is logged and
\* the action returns; the process ends when nothing is left to run.
CommandReturns ==
    /\ xPc = "action"
    /\ CommandTarget(xOption) = Null
    /\ xPc' = "exited"
    /\ UNCHANGED <<xCommand, xOption, xRan, xExit>>
    /\ UNCHANGED exceptCommand

\* The action of the command: process.exit(await build(target)), or of cdb.
CommandRuns ==
    /\ xPc = "action"
    /\ CommandTarget(xOption) # Null
    /\ xRan' = TRUE
    /\ xExit' \in {0, 1}
    /\ xPc' = "exited"
    /\ UNCHANGED <<xCommand, xOption>>
    /\ UNCHANGED exceptCommand

IdleCommand ==
    /\ xCommand = "build"
    /\ xOption = NoString
    /\ xRan = FALSE
    /\ xExit = ExitCodeAtEnd
    /\ xPc = "off"

(***************************************************************************)
(* The argument vector of a native module, in build and in cdb             *)
(***************************************************************************)
\* compileModule of the driver: the instructions of the native packages that
\* packages.get finds for the keys of the module's dependencies, in the
\* order of the keys.
RECURSIVE BuildDependencies(_, _)
BuildDependencies(pkgs, keys) ==
    IF Len(keys) = 0 THEN <<>>
    ELSE LET pkg == PackagesGet(pkgs, Head(keys))
         IN  (IF ~pkg.threw /\ pkg.value.isNative THEN <<pkg.value.instructions>>
              ELSE <<>>)
             \o BuildDependencies(pkgs, Tail(keys))

\* cdb: the instructions of every other native package of the collection,
\* in the order of the collection.
RECURSIVE CdbDependencies(_, _)
CdbDependencies(pkgs, nativeModule) ==
    IF Len(pkgs) = 0 THEN <<>>
    ELSE (IF Head(pkgs).isNative
             /\ Head(pkgs).packageJSON.name # nativeModule.packageJSON.name
          THEN <<Head(pkgs).instructions>> ELSE <<>>)
         \o CdbDependencies(Tail(pkgs), nativeModule)

\* The args compileModule of the driver hands to the compiler for a module.
BuildModuleArguments(pkgs, module) ==
    generateCompilerArguments(BuildDependencies(pkgs, module.packageJSON.dependencies),
                              module.instructions, getBaseCFlags(TargetString))

\* The args cdb records for the sources of a module.
CdbModuleArguments(pkgs, nativeModule) ==
    generateCompilerArguments(CdbDependencies(pkgs, nativeModule),
                              nativeModule.instructions, getBaseCFlags(TargetString))

(***************************************************************************)
(* The clang invocations of one build and their -target                    *)
(***************************************************************************)
\* The targets of a build: what parseTargetTriple and getHostTargetTriple
\* give.
ClangTargets ==
    {TargetTriple(<<"x86_64">>, Unknown, Linux, Gnu),
     TargetTriple(<<"x86_64">>, Unknown, Windows, Msvc),
     TargetTriple(<<"x86_64">>, Unknown, Darwin, System),
     TargetTriple(<<"x86_64">>, Unknown, Linux, System)}

Invocation(site, argv) == [site |-> site, argv |-> argv]

\* compileFile: the arguments clang is called with.
CompileFileArguments(args, source, object) == args \o <<source, <<"-o">>, object>>

\* embedFile: the arguments clang is called with.
EmbedFileArguments(object, target, flags) ==
    flags \o <<<<"-x">>, <<"c">>, <<"-c">>, <<"-target">>, getTargetTripleString(target),
               <<"-">>, <<"-o">>, object>>

\* buildEntryPoint: the args of main.c.
EntryPointArguments(coreModule) ==
    Pairs(<<"-I">>, coreModule.includeDirs)
    \o <<<<"-g">>, <<"-fwrapv">>, <<"-Wall">>, <<"-c">>>>

InitClang ==
    /\ iTarget \in ClangTargets
    /\ iCore \in {InstructionsWithFlags(dirs, <<>>, <<>>) :
                    dirs \in DistinctSeqsUpTo({<<"/inc">>, <<"/quickjs">>}, MaxIncludeDirs)}
    /\ iArgv = <<>>
    /\ iPc = "module"

\* compileModule: the source of the module is compiled; a non-zero exit
\* ends the build.
ClangModuleSource ==
    /\ iPc = "module"
    /\ iArgv' = Append(iArgv, Invocation("module",
         CompileFileArguments(
            generateCompilerArguments(<<>>, iCore,
                                      getBaseCFlags(getTargetTripleString(iTarget))),
            PathString(iCore.sources[1]), ObjectPath(<<"foo">>))))
    /\ iPc' \in {"embed", "failed"}
    /\ UNCHANGED <<iTarget, iCore>>
    /\ UNCHANGED exceptClang

\* The bundle is embedded with the flags ["-g"].
ClangEmbedBundle ==
    /\ iPc = "embed"
    /\ iArgv' = Append(iArgv, Invocation("embed",
         EmbedFileArguments(BundleObject, iTarget, <<<<"-g">>>>)))
    /\ iPc' \in {"entry", "failed"}
    /\ UNCHANGED <<iTarget, iCore>>
    /\ UNCHANGED exceptClang

\* buildEntryPoint: main.c is compiled.
ClangEntryPoint ==
    /\ iPc = "entry"
    /\ iArgv' = Append(iArgv, Invocation("entry",
         CompileFileArguments(EntryPointArguments(iCore), <<"main.c">>, EntryPointObject)))
    /\ iPc' \in {"link", "failed"}
    /\ UNCHANGED <<iTarget, iCore>>
    /\ UNCHANGED exceptClang

\* linkModules.
ClangLink ==
    /\ iPc = "link"
    /\ iArgv' = Append(iArgv, Invocation("link",
         LinkArguments(<<Archive(iCore.name), BundleObject, EntryPointObject>>,
                       Executable(iTarget), getBaseLFlags(iTarget) \o <<>>)))
    /\ iPc' \in {"done", "failed"}
    /\ UNCHANGED <<iTarget, iCore>>
    /\ UNCHANGED exceptClang

IdleClang ==
    /\ iTarget = Null
    /\ iCore = <<>>
    /\ iArgv = <<>>
    /\ iPc = "off"

(***************************************************************************)
(* One run of compileModule whose compiles may fail                        *)
(***************************************************************************)
\* The hash of a source whose bytes are given.
HashOf(source, bytes) == Sha256(<<source, bytes>>)

\* The bytes of every source in this run; a run before saw these or others.
BytesNow == <<"b">>

\* The hashes a run before may have stored under a name: those of the
\* sources that get the name, for either content.
StoredHashes(sources, objectName) ==
    {HashOf(sources[i], bytes) :
        i \in {k \in DOMAIN sources : ObjectNames(sources)[k] = objectName},
        bytes \in FileBytes}

\* What happened in the run.
Compiled(index, code) == [event |-> "compileFile", index |-> index, code |-> code]

Written(objectName) == [event |-> "writeFileSync", index |-> 0, code |-> 0, name |-> objectName]

Archived == [event |-> "bundleFiles", index |-> 0, code |-> 0]

\* compileFile with the throw of the caller left out: the loop goes on
\* whatever the exit code.
AfterCompileFileIgnoringCode(code) == "compiled"

\* compileFile throws when clang exits non-zero, and compileModule with it.
AfterCompileFile(code) == IF code # 0 THEN "threw" ELSE "compiled"

InitFailure ==
    /\ jSources \in {sources \in SourceLists : Len(sources) >= 1}
    /\ \E named \in SUBSET {ObjectNames(jSources)[i] : i \in DOMAIN jSources} :
         /\ jObjects = named
         /\ jHashFiles \in {map \in [named -> UNION {StoredHashes(jSources, n) : n \in named}] :
                              \A n \in named : map[n] \in StoredHashes(jSources, n)}
    /\ jPc = "source"
    /\ jIdx = 1
    /\ jNameTable = EmptyMap
    /\ jName = <<>>
    /\ jLog = <<>>

\* The head of the loop body: the name of the source.
FailureName ==
    /\ jPc = "source"
    /\ LET assigned == AssignName(jNameTable, jSources[jIdx])
       IN  jName' = assigned.name /\ jNameTable' = assigned.table
    /\ jPc' = "hashed"
    /\ UNCHANGED <<jSources, jObjects, jHashFiles, jIdx, jLog>>
    /\ UNCHANGED exceptFailure

FailureSkip ==
    /\ jName \in jObjects
    /\ jName \in DOMAIN jHashFiles
    /\ jHashFiles[jName] = HashOf(jSources[jIdx], BytesNow)

\* The end of an iteration.
FailureAdvance ==
    IF jIdx < Len(jSources)
    THEN jIdx' = jIdx + 1 /\ jPc' = "source"
    ELSE jIdx' = jIdx /\ jPc' = "archive"

\* skip is true: nothing is run for the source.
FailureCacheHit ==
    /\ jPc = "hashed"
    /\ FailureSkip
    /\ FailureAdvance
    /\ UNCHANGED <<jSources, jObjects, jHashFiles, jNameTable, jName, jLog>>
    /\ UNCHANGED exceptFailure

\* compileFile: clang exits with a code; with 0 the object is there.
FailureCompileFile ==
    /\ jPc = "hashed"
    /\ ~FailureSkip
    /\ \E code \in {0, 1} :
         /\ jLog' = Append(jLog, Compiled(jIdx, code))
         /\ jObjects' = IF code = 0 THEN jObjects \cup {jName} ELSE jObjects
         /\ jPc' = AfterCompileFile(code)
    /\ UNCHANGED <<jSources, jHashFiles, jIdx, jNameTable, jName>>
    /\ UNCHANGED exceptFailure

\* fs.writeFileSync(hashFile, currentHash)
FailureWriteHashFile ==
    /\ jPc = "compiled"
    /\ jHashFiles' = MapSet(jHashFiles, jName, HashOf(jSources[jIdx], BytesNow))
    /\ jLog' = Append(jLog, Written(jName))
    /\ FailureAdvance
    /\ UNCHANGED <<jSources, jObjects, jNameTable, jName>>
    /\ UNCHANGED exceptFailure

\* bundleFiles, and compileModule returns.
FailureBundleFiles ==
    /\ jPc = "archive"
    /\ jLog' = Append(jLog, Archived)
    /\ jPc' = "returned"
    /\ UNCHANGED <<jSources, jObjects, jHashFiles, jIdx, jNameTable, jName>>
    /\ UNCHANGED exceptFailure

IdleFailure ==
    /\ jSources = <<>>
    /\ jObjects = {}
    /\ jHashFiles = EmptyMap
    /\ jPc = "off"
    /\ jIdx = 0
    /\ jNameTable = EmptyMap
    /\ jName = <<>>
    /\ jLog = <<>>

(***************************************************************************)
(* resolvePackageDir, one iteration of its loop at a time                  *)
(***************************************************************************)
\* Bound: the depth of fromDir below the root of the file system.
MaxDepth == 3

\* The directories from the root of the file system downwards; <<>> is the
\* root of the file system, whose path.dirname is itself.
Segments == <<"home", "app", "sub", "deep", "deeper">>

Ancestor(depth) == SubSeq(Segments, 1, depth)

\* The package that is looked for.
Wanted == "p"

\* path.join(dir, "node_modules", name)
ResolvePath(dir, pkgName) == dir \o <<"node_modules", pkgName>>

\* fs.existsSync(path) alone.
ExistsOfAnyKind(fs, resolvePath) == fs[resolvePath] # "none"

\* fs.existsSync(path) && fs.statSync(path).isDirectory()
IsExistingDirectory(fs, resolvePath) == fs[resolvePath] = "dir"

InitResolve ==
    /\ vFs \in [{ResolvePath(Ancestor(k), Wanted) : k \in 0..MaxDepth}
                  -> {"dir", "file", "none"}]
    /\ vFrom \in {Ancestor(k) : k \in 0..MaxDepth}
    /\ vRoot \in {Ancestor(k) : k \in 0..Len(vFrom)}
    /\ vDir = vFrom
    /\ vResult = NotFound
    /\ vPc = "loop"

\* The path is an existing directory: it is returned.
ResolveReturns ==
    /\ vPc = "loop"
    /\ IsExistingDirectory(vFs, ResolvePath(vDir, Wanted))
    /\ vResult' = ResolvePath(vDir, Wanted)
    /\ vPc' = "returned"
    /\ UNCHANGED <<vFs, vRoot, vFrom, vDir>>
    /\ UNCHANGED exceptResolve

\* It is not, and dir has a parent: the loop goes on there.
ResolveAscends ==
    /\ vPc = "loop"
    /\ ~IsExistingDirectory(vFs, ResolvePath(vDir, Wanted))
    /\ Dirname(vDir) # vDir
    /\ vDir' = Dirname(vDir)
    /\ UNCHANGED <<vFs, vRoot, vFrom, vResult, vPc>>
    /\ UNCHANGED exceptResolve

\* It is not, and dir is its own parent: Could not locate package.
ResolveThrows ==
    /\ vPc = "loop"
    /\ ~IsExistingDirectory(vFs, ResolvePath(vDir, Wanted))
    /\ Dirname(vDir) = vDir
    /\ vPc' = "threw"
    /\ UNCHANGED <<vFs, vRoot, vFrom, vDir, vResult>>
    /\ UNCHANGED exceptResolve

IdleResolve ==
    /\ vFs = <<>>
    /\ vRoot = <<>>
    /\ vFrom = <<>>
    /\ vDir = <<>>
    /\ vResult = NotFound
    /\ vPc = "off"

(***************************************************************************)
(* Specifications                                                          *)
(***************************************************************************)
\* Target triples: parse and render applied to every input.
InitTripleSpec == InitTriple /\ IdleHash /\ IdleCache /\ IdleDiscovery /\ IdleEmbed /\ IdleArgs /\ IdleCollection /\ IdleMain /\ IdleGateway /\ IdleScan /\ IdleStep /\ IdleProcess /\ IdleMacro /\ IdleFlags /\ IdleConfig /\ IdleCommand /\ IdleClang /\ IdleFailure /\ IdleResolve

NextTriple == Render \/ Parse

SpecTriple == InitTripleSpec /\ [][NextTriple]_vars

\* The incremental hash: one modification of one input, hashed before and after.
InitHashSpec == InitHash /\ IdleTriple /\ IdleCache /\ IdleDiscovery /\ IdleEmbed /\ IdleArgs /\ IdleCollection /\ IdleMain /\ IdleGateway /\ IdleScan /\ IdleStep /\ IdleProcess /\ IdleMacro /\ IdleFlags /\ IdleConfig /\ IdleCommand /\ IdleClang /\ IdleFailure /\ IdleResolve

NextHash == ModifySource \/ ModifyDependency \/ ChangeArguments

SpecHash == InitHashSpec /\ [][NextHash]_vars

\* The compile cache: runs of compileModule over one module, with edits
\* between the runs and crashes inside them.
Init == InitCache /\ IdleTriple /\ IdleHash /\ IdleDiscovery /\ IdleEmbed /\ IdleArgs /\ IdleCollection /\ IdleMain /\ IdleGateway /\ IdleScan /\ IdleStep /\ IdleProcess /\ IdleMacro /\ IdleFlags /\ IdleConfig /\ IdleCommand /\ IdleClang /\ IdleFailure /\ IdleResolve

Next ==
    \/ StartCompileModule
    \/ NameAndHash
    \/ CacheHit
    \/ CompileFile
    \/ CompileFileFails
    \/ WriteHashFile
    \/ BundleFiles
    \/ Crash
    \/ EditFile
    \/ EditConfiguration

Spec == Init /\ [][Next]_vars

\* Discovery and the start of the native build, over every package tree.
InitDiscoverySpec == InitDiscovery /\ IdleTriple /\ IdleHash /\ IdleCache /\ IdleEmbed /\ IdleArgs /\ IdleCollection /\ IdleMain /\ IdleGateway /\ IdleScan /\ IdleStep /\ IdleProcess /\ IdleMacro /\ IdleFlags /\ IdleConfig /\ IdleCommand /\ IdleClang /\ IdleFailure /\ IdleResolve

NextDiscovery ==
    \/ CheckPackageJSON
    \/ CheckPackageJSONNoCore
    \/ CheckPackageJSONLoadFails
    \/ DependencyTracked
    \/ DependencyRecurse
    \/ DependencyNotFound
    \/ CheckPackageJSONReturn
    \/ GenerateOutputInformation
    \/ GenerateOutputInformationThrows
    \/ BuildManagedCode
    \/ BuildManagedCodeFails
    \/ BundleFails
    \/ ProbeTools
    \/ ProbeToolsFails
    \/ NotNative
    \/ NativeModule
    \/ CompileModule
    \/ CompileModuleFails
    \/ ModulesDone
    \/ EmbedBundle
    \/ EmbedBundleFails
    \/ BuildEntryPoint
    \/ BuildEntryPointFails
    \/ BuildEntryPointNoCore
    \/ LinkModules
    \/ LinkModulesFails

SpecDiscovery == InitDiscoverySpec /\ [][NextDiscovery]_vars

\* embedFile, over every content and prefix.
InitEmbedSpec ==
    InitEmbed /\ IdleTriple /\ IdleHash /\ IdleCache /\ IdleDiscovery /\ IdleArgs /\ IdleCollection /\ IdleMain /\ IdleGateway /\ IdleScan /\ IdleStep /\ IdleProcess /\ IdleMacro /\ IdleFlags /\ IdleConfig /\ IdleCommand /\ IdleClang /\ IdleFailure /\ IdleResolve

NextEmbed == EmbedFile \/ EmbedResolves \/ EmbedRejects

SpecEmbed == InitEmbedSpec /\ [][NextEmbed]_vars

\* generateCompilerArguments, over every configuration and flag list.
InitArgsSpec ==
    InitArgs /\ IdleTriple /\ IdleHash /\ IdleCache /\ IdleDiscovery /\ IdleEmbed /\ IdleCollection /\ IdleMain /\ IdleGateway /\ IdleScan /\ IdleStep /\ IdleProcess /\ IdleMacro /\ IdleFlags /\ IdleConfig /\ IdleCommand /\ IdleClang /\ IdleFailure /\ IdleResolve

NextArgs == GenerateCompilerArguments

SpecArgs == InitArgsSpec /\ [][NextArgs]_vars

\* The accessors of a PackageCollection, over every collection that set makes.
InitCollectionSpec ==
    InitCollection /\ IdleTriple /\ IdleHash /\ IdleCache /\ IdleDiscovery /\ IdleEmbed /\ IdleArgs /\ IdleMain /\ IdleGateway /\ IdleScan /\ IdleStep /\ IdleProcess /\ IdleMacro /\ IdleFlags /\ IdleConfig /\ IdleCommand /\ IdleClang /\ IdleFailure /\ IdleResolve

NextCollection == CollectionSet \/ GetCore \/ GetBundler

SpecCollection == InitCollectionSpec /\ [][NextCollection]_vars

\* The run of the main that generateEntryPoint writes.
InitMainSpec ==
    InitMain /\ IdleTriple /\ IdleHash /\ IdleCache /\ IdleDiscovery /\ IdleEmbed /\ IdleArgs /\ IdleCollection /\ IdleGateway /\ IdleScan /\ IdleStep /\ IdleProcess /\ IdleMacro /\ IdleFlags /\ IdleConfig /\ IdleCommand /\ IdleClang /\ IdleFailure /\ IdleResolve

NextMain ==
    \/ MainPlainStatement
    \/ MainCtor
    \/ MainCtorExits
    \/ MainLoadModules
    \/ MainExecute
    \/ MainFree
    \/ MainReturn

SpecMain == InitMainSpec /\ [][NextMain]_vars

\* The bundling step of build, over every gateway and every output of its bundler.
InitGatewaySpec ==
    InitGateway /\ IdleTriple /\ IdleHash /\ IdleArgs /\ IdleCache /\ IdleDiscovery /\ IdleEmbed /\ IdleCollection /\ IdleMain /\ IdleScan /\ IdleStep /\ IdleProcess /\ IdleMacro /\ IdleFlags /\ IdleConfig /\ IdleCommand /\ IdleClang /\ IdleFailure /\ IdleResolve

NextGateway == GatewayBundle \/ BuildManagedCodeReturns \/ BuildManagedCodeCatches

SpecGateway == InitGatewaySpec /\ [][NextGateway]_vars

\* getDependencies, over the argument vectors compileModule makes.
InitScanSpec ==
    InitScan /\ IdleTriple /\ IdleHash /\ IdleArgs /\ IdleCache /\ IdleDiscovery /\ IdleEmbed /\ IdleCollection /\ IdleMain /\ IdleGateway /\ IdleStep /\ IdleProcess /\ IdleMacro /\ IdleFlags /\ IdleConfig /\ IdleCommand /\ IdleClang /\ IdleFailure /\ IdleResolve

NextScan == GetDependencies

SpecScan == InitScanSpec /\ [][NextScan]_vars

\* The embed step over several builds, the bundle rewritten and the cache files removed in between.
InitStepSpec ==
    InitStep /\ IdleTriple /\ IdleHash /\ IdleArgs /\ IdleCache /\ IdleDiscovery /\ IdleEmbed /\ IdleCollection /\ IdleMain /\ IdleGateway /\ IdleScan /\ IdleProcess /\ IdleMacro /\ IdleFlags /\ IdleConfig /\ IdleCommand /\ IdleClang /\ IdleFailure /\ IdleResolve

NextStep == EmbedStepReadFails \/ EmbedStepSkips \/ EmbedStepEmbeds \/ EmbedStepEmbedRejects \/ EmbedStepWriteFails \/ NextBuild \/ RemoveBundleObject \/ RemoveBundleHash

SpecStep == InitStepSpec /\ [][NextStep]_vars

\* The subprocesses of several builds in a row.
InitProcessSpec ==
    InitProcess /\ IdleTriple /\ IdleHash /\ IdleArgs /\ IdleCache /\ IdleDiscovery /\ IdleEmbed /\ IdleCollection /\ IdleMain /\ IdleGateway /\ IdleScan /\ IdleStep /\ IdleMacro /\ IdleFlags /\ IdleConfig /\ IdleCommand /\ IdleClang /\ IdleFailure /\ IdleResolve

NextProcess == Discovery \/ Bundling \/ SpawnChild \/ CloseChild \/ SpawnError \/ NativeModuleStarts \/ EmbedStep \/ SkipOrCompile \/ EntryPoint \/ EntrySkipOrCompile \/ BuildAgain

SpecProcess == InitProcessSpec /\ [][NextProcess]_vars

\* generateCompilerArguments, over macro values of every kind.
InitMacroSpec ==
    InitMacro /\ IdleTriple /\ IdleHash /\ IdleArgs /\ IdleCache /\ IdleDiscovery /\ IdleEmbed /\ IdleCollection /\ IdleMain /\ IdleGateway /\ IdleScan /\ IdleStep /\ IdleProcess /\ IdleFlags /\ IdleConfig /\ IdleCommand /\ IdleClang /\ IdleFailure /\ IdleResolve

NextMacro == SerializeMacros

SpecMacro == InitMacroSpec /\ [][NextMacro]_vars

\* The compile and the link of a native module whose build script sets flags.
InitFlagsSpec ==
    InitFlags /\ IdleTriple /\ IdleHash /\ IdleArgs /\ IdleCache /\ IdleDiscovery /\ IdleEmbed /\ IdleCollection /\ IdleMain /\ IdleGateway /\ IdleScan /\ IdleStep /\ IdleProcess /\ IdleMacro /\ IdleConfig /\ IdleCommand /\ IdleClang /\ IdleFailure /\ IdleResolve

NextFlags == FlagsCompileModule \/ FlagsLinkModules

SpecFlags == InitFlagsSpec /\ [][NextFlags]_vars

\* A build script: calls on its CFG object, then complete().
InitConfigSpec ==
    InitConfig /\ IdleTriple /\ IdleHash /\ IdleArgs /\ IdleCache /\ IdleDiscovery /\ IdleEmbed /\ IdleCollection /\ IdleMain /\ IdleGateway /\ IdleScan /\ IdleStep /\ IdleProcess /\ IdleMacro /\ IdleFlags /\ IdleCommand /\ IdleClang /\ IdleFailure /\ IdleResolve

NextConfig == AddSource \/ AddIncludeDir \/ AddLibraryLookup \/ DefineMacro \/ SetLoadingFunctions \/ Complete

SpecConfig == InitConfigSpec /\ [][NextConfig]_vars

\* The build and cdb commands, over the strings of the -t option.
InitCommandSpec ==
    InitCommand /\ IdleTriple /\ IdleHash /\ IdleArgs /\ IdleCache /\ IdleDiscovery /\ IdleEmbed /\ IdleCollection /\ IdleMain /\ IdleGateway /\ IdleScan /\ IdleStep /\ IdleProcess /\ IdleMacro /\ IdleFlags /\ IdleConfig /\ IdleClang /\ IdleFailure /\ IdleResolve

NextCommand == CommandReturns \/ CommandRuns

SpecCommand == InitCommandSpec /\ [][NextCommand]_vars

\* One build: its four kinds of clang invocation.
InitClangSpec ==
    InitClang /\ IdleTriple /\ IdleHash /\ IdleArgs /\ IdleCache /\ IdleDiscovery /\ IdleEmbed /\ IdleCollection /\ IdleMain /\ IdleGateway /\ IdleScan /\ IdleStep /\ IdleProcess /\ IdleMacro /\ IdleFlags /\ IdleConfig /\ IdleCommand /\ IdleFailure /\ IdleResolve

NextClang == ClangModuleSource \/ ClangEmbedBundle \/ ClangEntryPoint \/ ClangLink

SpecClang == InitClangSpec /\ [][NextClang]_vars

\* One run of compileModule over every cache a run before may have left, each compile exiting with 0 or not.
InitFailureSpec ==
    InitFailure /\ IdleTriple /\ IdleHash /\ IdleArgs /\ IdleCache /\ IdleDiscovery /\ IdleEmbed /\ IdleCollection /\ IdleMain /\ IdleGateway /\ IdleScan /\ IdleStep /\ IdleProcess /\ IdleMacro /\ IdleFlags /\ IdleConfig /\ IdleCommand /\ IdleClang /\ IdleResolve

NextFailure == FailureName \/ FailureCacheHit \/ FailureCompileFile \/ FailureWriteHashFile \/ FailureBundleFiles

SpecFailure == InitFailureSpec /\ [][NextFailure]_vars

\* resolvePackageDir over every small file system and every fromDir; the loop is synchronous code and keeps running.
InitResolveSpec ==
    InitResolve /\ IdleTriple /\ IdleHash /\ IdleArgs /\ IdleCache /\ IdleDiscovery /\ IdleEmbed /\ IdleCollection /\ IdleMain /\ IdleGateway /\ IdleScan /\ IdleStep /\ IdleProcess /\ IdleMacro /\ IdleFlags /\ IdleConfig /\ IdleCommand /\ IdleClang /\ IdleFailure

NextResolve == ResolveReturns \/ ResolveAscends \/ ResolveThrows

SpecResolve == InitResolveSpec /\ [][NextResolve]_vars /\ WF_vars(NextResolve)

(***************************************************************************)
(* Claims about target triples (checked under SpecTriple)                  *)
(***************************************************************************)
HyphenFree(s) == \A i \in DOMAIN s : s[i] # Hyphen

WellFormedField(s) == Len(s) > 0 /\ HyphenFree(s)

WellFormedTriple(T) ==
    /\ WellFormedField(T.arch)
    /\ WellFormedField(T.vendor)
    /\ WellFormedField(T.platform)
    /\ WellFormedField(T.abi)

IsDarwinSystem(T) == T.platform = Darwin /\ T.abi = System

\* The number of parts of s, counted from its hyphens.
PartCount(s) == Cardinality({i \in DOMAIN s : s[i] = Hyphen}) + 1

\* C7: for every triple T with platform = darwin and abi = system (any
\* non-empty hyphen-free arch and vendor),
\* parseTargetTriple(getTargetTripleString(T)) has abi = "system".
C7_DarwinSystemAbiKept ==
    (tPc = "TST" /\ WellFormedTriple(tInput) /\ IsDarwinSystem(tInput))
        => (tTriple # Null /\ tTriple.abi = System)

\* C8: for every triple T whose four fields are non-empty and hyphen-free and
\* which is not (darwin, system), parseTargetTriple(getTargetTripleString(T))
\* equals T field by field.
C8_RoundTripNonDarwinSystem ==
    (tPc = "TST" /\ WellFormedTriple(tInput) /\ ~IsDarwinSystem(tInput))
        => tTriple = tInput

\* A triple with a vendor other than "unknown" went through render and parse
\* and came back unchanged.
C8_Witness ==
    /\ tPc = "TST"
    /\ WellFormedTriple(tInput)
    /\ ~IsDarwinSystem(tInput)
    /\ tInput.vendor # Unknown
    /\ tInput.platform = Darwin
    /\ tTriple = tInput

\* s is a canonical triple string: getTargetTripleString produces it for some
\* triple with non-empty hyphen-free fields (the 4-part form, or the 3-part
\* arch-vendor-darwin form).
IsCanonical(s) ==
    LET parts == Split(s, Hyphen)
    IN  /\ \A i \in DOMAIN parts : WellFormedField(parts[i])
        /\ \/ Len(parts) = 4 /\ ~(parts[3] = Darwin /\ parts[4] = System)
           \/ Len(parts) = 3 /\ parts[3] = Darwin

\* C9: for every canonical triple string s,
\* getTargetTripleString(parseTargetTriple(s)) = s.
C9_RenderParseIdentityOnCanonical ==
    (tPc \in {"ST", "STS"} /\ IsCanonical(tInput))
        => (tTriple # Null /\ (tPc = "STS" => tString = tInput))

\* C10: parseTargetTriple returns null exactly when the input does not have 2,
\* 3 or 4 parts; for 2, 3 and 4 parts every field of the result is one of the
\* input's parts or a default (so it is non-empty when the parts are), and the
\* vendor is "unknown" unless a 4-part form gives it.
C10_NullExactlyOutsideTwoToFourParts ==
    tPc = "ST" =>
        LET n == PartCount(tInput)
            parts == Split(tInput, Hyphen)
            given == {parts[i] : i \in DOMAIN parts}
        IN  /\ (tTriple = Null) <=> (n \notin {2, 3, 4})
            /\ tTriple # Null =>
                /\ DOMAIN tTriple = {"arch", "vendor", "platform", "abi"}
                /\ tTriple.arch \in given
                /\ tTriple.platform \in given
                /\ tTriple.abi \in given \cup {Msvc, Gnu, System}
                /\ tTriple.vendor = (IF n = 4 THEN parts[2] ELSE Unknown)
                /\ (\A p \in given : Len(p) > 0) =>
                       \A f \in DOMAIN tTriple : Len(tTriple[f]) > 0

\* Both outcomes happened: this state holds a 2-part string parsed to a full
\* triple with the defaults filled in.
C10_Witness ==
    /\ tPc = "ST"
    /\ PartCount(tInput) = 2
    /\ tTriple # Null
    /\ tTriple.vendor = Unknown
    /\ tTriple.abi = Gnu

\* A 1-part string was parsed, to null.
C10_WitnessNull ==
    /\ tPc = "ST"
    /\ PartCount(tInput) = 1
    /\ tTriple = Null

\* The abi a 2-part form gets from its platform.
InferredAbi(platform) ==
    IF platform = Windows THEN Msvc ELSE IF platform = Linux THEN Gnu ELSE System

\* C11: a 2-part string arch-platform parses to {arch, unknown, platform, abi}
\* with abi msvc for windows, gnu for linux and system otherwise; the parse of
\* "aarch64-darwin" is {aarch64, unknown, darwin, system}, and a 2-part darwin
\* form renders, after its parse, as arch-unknown-darwin.
C11_TwoPartFormInfersAbi ==
    /\ parseTargetTriple(<<"aarch64", Hyphen, "darwin">>)
           = TargetTriple(<<"aarch64">>, Unknown, Darwin, System)
    /\ getTargetTripleString(TargetTriple(<<"aarch64">>, Unknown, Darwin, System))
           = <<"aarch64", Hyphen, "unknown", Hyphen, "darwin">>
    /\ (tPc \in {"ST", "STS"} /\ PartCount(tInput) = 2) =>
           LET parts == Split(tInput, Hyphen)
           IN  /\ tTriple = TargetTriple(parts[1], Unknown, parts[2],
                                         InferredAbi(parts[2]))
               /\ (tPc = "STS" /\ parts[2] = Darwin) =>
                      tString = Join(<<parts[1], Unknown, Darwin>>, Hyphen)

\* A 2-part darwin string was parsed, got the abi "system", and was rendered.
C11_Witness ==
    /\ tPc = "STS"
    /\ PartCount(tInput) = 2
    /\ Split(tInput, Hyphen)[2] = Darwin
    /\ Len(Split(tInput, Hyphen)[1]) > 0
    /\ tTriple.abi = System
    /\ tString = Join(<<Split(tInput, Hyphen)[1], Unknown, Darwin>>, Hyphen)

\* A 2-part windows string was parsed and got the abi "msvc".
C11_WitnessWindows ==
    /\ tPc = "ST"
    /\ PartCount(tInput) = 2
    /\ Split(tInput, Hyphen)[2] = Windows
    /\ tTriple.abi = Msvc

(***************************************************************************)
(* Claims about the incremental hash (checked under SpecHash)              *)
(***************************************************************************)
\* C4: calculateHash changes whenever, with everything else fixed, the bytes
\* of the source change, the bytes of an existing dependency file change, or
\* the argument vector changes; a dependency that does not exist is skipped
\* without failure.
C4_HashChangesWithEveryInput ==
    /\ hEdit \in {"source", "dependency", "args"} => hHash # hPrev
    /\ hEdit # "idle" => hHash # HashError

\* The parts of C4 that concern file bytes: a modified source or dependency
\* changes the hash, and a missing dependency does not make it fail.
C4_HashChangesWithFileBytes ==
    /\ hEdit \in {"source", "dependency"} => hHash # hPrev
    /\ hEdit # "idle" => hHash # HashError

(***************************************************************************)
(* Claims about the compile cache (checked under Spec)                     *)
(***************************************************************************)
\* The hash compileModule computes now for the source at index i.
HashNow(i) ==
    calculateHash(cFiles, cSources[i],
                  getDependencies(cFiles, cArgs, cSources[i], cDirective), cArgs)

\* C1: cache soundness.  If the previous run left a translation unit current
\* (compiled it, or skipped it as current) and its source bytes, its header
\* bytes and the argument vector are as they were then, this run issues no
\* compile invocation for it.
C1_NoCompileWhenInputsUnchanged ==
    cPc # "idle" =>
        \A i \in cCompiled :
            cPrev[i] = NoInputs \/ cPrev[i] # UnitInputs(cSources[i])

\* No two sources of the module are given the same name.
NamesDistinct ==
    LET names == ObjectNames(cSources)
    IN  \A i, j \in DOMAIN names : i # j => names[i] # names[j]

\* C2: the cache is never falsely fresh.  In every state reachable by builds,
\* edits and crashes, whenever the object of a source exists and its sidecar
\* holds the hash of the current (args, source, headers), the object is the
\* result of compiling exactly those inputs.  (Stated for the modules whose
\* sources have names of their own, where every source owns its object and
\* its sidecar.)
C2_NeverFalselyFresh ==
    \A i \in DOMAIN cSources :
        LET n == ObjectNames(cSources)[i]
        IN  (/\ NamesDistinct
             /\ n \in DOMAIN cObjects
             /\ n \in DOMAIN cHashFiles
             /\ cHashFiles[n] = HashNow(i))
                => cObjects[n] = UnitInputs(cSources[i])

\* C3: within one module, compileModule gives pairwise distinct object names
\* (hence object paths and sidecar paths) to all sources.
C3_DistinctObjectNames ==
    \A i, j \in DOMAIN objects : i # j => objects[i] # objects[j]

\* The second run has handled every source, after a first run that handled
\* every source too.
SecondRunDone ==
    /\ cRuns = 2
    /\ cPc = "archive"
    /\ \A i \in DOMAIN cSources : cPrev[i] # NoInputs

\* C17: a build run twice in succession, with no source, header, configuration
\* or flag changed and the first run successful, issues no compile invocation
\* in the second run (stated for the sources of a module).
C17_RebuildCompilesNothing ==
    (SecondRunDone /\ cEdits = 0) => cCompiled = {}

\* Since the first run only the header was modified: the sources and the
\* argument vector are as the first run saw them.
OnlyHeaderModified ==
    /\ cEdits = 1
    /\ Exists(cFiles, Header)
    /\ \A i \in DOMAIN cSources :
           /\ cPrev[i].source = cFiles[cSources[i]]
           /\ cPrev[i].args = cArgs
    /\ \E i \in DOMAIN cSources :
           IncludesHeader(cSources[i]) /\ cPrev[i].headers # <<cFiles[Header]>>

\* C18: after a successful build, when exactly the header is modified, the
\* second build recompiles exactly the translation units that include it,
\* the ones that find it through an include directory too, and no other.
C18_HeaderEditRecompilesItsUnits ==
    (SecondRunDone /\ OnlyHeaderModified) =>
        cCompiled = {i \in DOMAIN cSources : IncludesHeader(cSources[i])}

\* Since the first run only the defineMacros of the module changed.
OnlyMacrosChanged ==
    /\ cEdits = 1
    /\ \A i \in DOMAIN cSources :
           /\ cPrev[i].source = cFiles[cSources[i]]
           /\ IncludesHeader(cSources[i]) => cPrev[i].headers = <<cFiles[Header]>>
           /\ cPrev[i].args # cArgs

\* When only the defineMacros of the module change between two builds, the
\* second build recompiles every source of the module.
C19_MacroChangeRecompilesModule ==
    (SecondRunDone /\ OnlyMacrosChanged) => cCompiled = DOMAIN cSources

\* C19: when only the defineMacros of a module M change between two builds,
\* the second build recompiles every source of M, and no source of a module
\* that is not M and does not list M (a module whose own argument vector and
\* files are as they were).
C19_MacroChangeRecompilesOnlyDependents ==
    /\ (SecondRunDone /\ OnlyMacrosChanged) => cCompiled = DOMAIN cSources
    /\ (SecondRunDone /\ cEdits = 0 /\ cSources # <<>>) => cCompiled = {}

\* The header scan of the source at hand exits non-zero.
ScanFails ==
    ClangMM(cFiles, FilterArguments(cArgs), cSources[cIdx], cDirective).code # 0

\* C23: when the header-dependency scan of a source exits non-zero in a run,
\* the source is compiled in that run: a failed scan never leads to a cache
\* hit for it, in the run of the failure and in every later run whose scan
\* fails again.
C23_FailedScanIsNeverACacheHit ==
    (cPc = "hashed" /\ ScanFails) => ~Skip

\* The directories the dependency names of a manifest resolve to.
DependencyDirs(tree, dir) ==
    {resolvePackageDir(tree, tree[dir].dependencies[i], Root, dir) :
        i \in DOMAIN tree[dir].dependencies} \ {NotFound}

\* The directories reached from dirs along dependencies, dirs included.
RECURSIVE DependencyClosure(_, _)
DependencyClosure(tree, dirs) ==
    LET more == dirs \cup UNION {DependencyDirs(tree, d) : d \in dirs}
    IN  IF more = dirs THEN dirs ELSE DependencyClosure(tree, more)

\* The manifest in dir lists @yaje/core, or one it depends on does.
DependsOnCore(tree, dir) ==
    \E d \in DependencyClosure(tree, {dir}) : Core \in RangeOf(tree[d].dependencies)

\* C5: discovery processes each package directory (reads its manifest, loads
\* its build script) at most once, also when the key a dependency is listed
\* under differs from the name in the package's own manifest.
C5_EachPackageProcessedOnce ==
    \A d \in DOMAIN dVisits : dVisits[d] <= 1

\* C6: buildNativeCode takes a package as native only if its manifest depends
\* on @yaje/core, directly or through its dependencies (@yaje/core itself
\* aside); a root package that does not list @yaje/core is registered but is
\* not taken as native and contributes no loading function, build script or not.
C6_NativeOnlyWithCoreDependency ==
    /\ \A i \in DOMAIN dIterated :
           \/ dTree[dIterated[i]].name = Core
           \/ DependsOnCore(dTree, dIterated[i])
    /\ (dPc \notin {"off", "discovery"}
            /\ Core \notin RangeOf(dTree[Root].dependencies))
         => /\ Has(packages, dTree[Root].name)
            /\ Root \notin RangeOf(dIterated)
            /\ CompleteResult("app", Root).loadingFunctions[1]
                   \notin RangeOf(loadingFunctions)

\* sub occurs in seq as a run of consecutive elements.
Contains(seq, sub) ==
    \E i \in 0..(Len(seq) - Len(sub)) : SubSeq(seq, i + 1, i + Len(sub)) = sub

\* What compileModule throws carries clang's stderr verbatim.
C16_ErrorCarriesStderr ==
    cError # NoError =>
        Len(cError.stderr) > 0 /\ Contains(cError.thrown, cError.stderr)

\* C16: when clang exits non-zero on a module source, what compileModule
\* throws carries clang's stderr verbatim and the reconstructed command line:
\* clang, the arguments, the source, -o, the object.
C16_ErrorCarriesStderrAndCommandLine ==
    cError # NoError =>
        /\ Len(cError.stderr) > 0 /\ Contains(cError.thrown, cError.stderr)
        /\ Contains(cError.thrown, <<"clang ">> \o QuotedArgs(cError.args))
        /\ Contains(cError.thrown, PathString(cError.source) \o <<"\" \"-o\" \"">>
                                   \o cError.object)

(***************************************************************************)
(* Claims about the native build (checked under SpecDiscovery)             *)
(***************************************************************************)
\* The functions declared extern, in order.
ExternsOf(text) ==
    NamesIn(Lines(text), "extern void ", "(JSRuntime *rt, JSContext *ctx);")

\* The loading functions of the native packages of a collection, in its order.
RECURSIVE DeclaredLoadingFunctions(_)
DeclaredLoadingFunctions(pkgs) ==
    IF Len(pkgs) = 0 THEN <<>>
    ELSE (IF Head(pkgs).isNative THEN Head(pkgs).instructions.loadingFunctions
          ELSE <<>>)
         \o DeclaredLoadingFunctions(Tail(pkgs))

\* C12: once main.c is generated, the calls in yaje_core_load_modules and the
\* extern declarations are, in order, the loading functions of the native
\* packages in the order of the collection, and the text is the one
\* generateEntryPoint gives for that list.
C12_EntryPointCallsInDiscoveryOrder ==
    mainC # Missing =>
        /\ CallsOf(mainC) = DeclaredLoadingFunctions(packages)
        /\ ExternsOf(mainC) = DeclaredLoadingFunctions(packages)
        /\ mainC = generateEntryPoint(DeclaredLoadingFunctions(packages))

\* main.c was generated for two native packages or more.
C12_Witness ==
    /\ mainC # Missing
    /\ Len(CallsOf(mainC)) >= 2
    /\ CallsOf(mainC)[1] # CallsOf(mainC)[2]
    /\ CallsOf(mainC) = DeclaredLoadingFunctions(packages)
\* The native packages of a collection, in its order.
NativePackages(pkgs) == SelectSeq(pkgs, LAMBDA pkg : pkg.isNative)

\* The library names of the native packages, in order, repeats included.
RECURSIVE AllLinkLibraries(_)
AllLinkLibraries(natives) ==
    IF Len(natives) = 0 THEN <<>>
    ELSE Head(natives).instructions.linkLibraries \o AllLinkLibraries(Tail(natives))

\* A list without the repeats of its elements: each stays where it is first.
FirstSeen(seq) ==
    LET first(i) == \A j \in 1..(i - 1) : seq[j] # seq[i]
        kept == {i \in DOMAIN seq : first(i)}
        rank(i) == Cardinality({j \in kept : j <= i})
    IN  [k \in 1..Cardinality(kept) |-> seq[CHOOSE i \in kept : rank(i) = k]]

\* The link arguments the native packages of a collection call for.
ExpectedLinkArguments(pkgs) ==
    LET natives == NativePackages(pkgs)
        names == FirstSeen(AllLinkLibraries(natives))
    IN  [i \in DOMAIN natives |-> Archive(natives[i].packageJSON.name)]
        \o <<BundleObject, EntryPointObject>>
        \o <<<<"-g">>>>
        \o [i \in DOMAIN names |-> <<"-l", names[i]>>]
        \o <<<<"-o">>, Executable(BuildTarget)>>

\* The link arguments, when the link is invoked, are the archives of the
\* native modules in discovery order, the bundle object, the entry-point
\* object, -g, one -l<name> per distinct library in first-seen order, and
\* -o <executable>.
C13_LinkArgumentsInOrder ==
    linkArgs # <<>> => linkArgs = ExpectedLinkArguments(packages)

\* C13: the link arguments are in that order, and the link is reached for
\* every collection of native modules made by complete(): buildNativeCode does
\* not throw while it collects a module's loading functions and libraries.
C13_LinkReachedWithArgumentsInOrder ==
    /\ C13_LinkArgumentsInOrder
    /\ ~(dPc = "threw" /\ Len(dIterated) > 0)

\* No subprocess runs after one that failed, and a failed one ends the build
\* with exit code 1.
C15_NothingRunsAfterAFailure ==
    /\ \A i \in 1..(Len(dSpawns) - 1) : dSpawns[i].code = 0
    /\ (Len(dSpawns) > 0 /\ dSpawns[Len(dSpawns)].code # 0) => dPc = "failed"

\* C15: a failure in any phase of build makes build return 1: build never
\* throws, and no subprocess of a later phase runs after a failure.
C15_EveryFailureReturnsOne ==
    /\ dPc # "threw"
    /\ C15_NothingRunsAfterAFailure

(***************************************************************************)
(* Claims about the embedded bundle (checked under SpecEmbed)              *)
(***************************************************************************)
\* The index of a token in a text, 0 if it is not there.
RECURSIVE TokenIndex(_, _, _)
TokenIndex(text, token, i) ==
    IF i > Len(text) THEN 0
    ELSE IF text[i] = token THEN i
    ELSE TokenIndex(text, token, i + 1)

\* The value of a decimal or hexadecimal numeral.
RECURSIVE NumeralValue(_, _)
NumeralValue(digits, base) ==
    IF Len(digits) = 0 THEN 0
    ELSE NumeralValue(SubSeq(digits, 1, Len(digits) - 1), base) * base
         + (CHOOSE v \in 0..15 : HexDigits[v + 1] = digits[Len(digits)])

\* The initializer of <prefix>_DATA in a source: its elements, split at the
\* commas, each an element's tokens.
DataElements(source) ==
    LET open == TokenIndex(source, "_DATA[] = {", 1)
        close == TokenIndex(source, "};", open + 1)
    IN  Split(SubSeq(source, open + 1, close - 1), ",")

\* The value assigned to <prefix>_LENGTH in a source.
DeclaredLength(source) ==
    LET from == TokenIndex(source, "_LENGTH = ", 1)
        to == TokenIndex(source, ";\n\n", from + 1)
    IN  NumeralValue(SubSeq(source, from + 1, to - 1), 10)

\* C14: for a content of n bytes the piped source declares <P>_LENGTH = n and
\* a <P>_DATA array of n + 1 elements: the bytes in order as 0x and two hex
\* digits, then 0x00; for n = 0 the array is {0x00}.
C14_EmbeddedArrayHasBytesAndSentinel ==
    ePc \in {"piped", "resolved", "rejected"} =>
        LET n == Len(eContent)
            elements == DataElements(eStdin)
        IN  /\ eStdin[1] = "size_t " /\ eStdin[2] = ePrefix
            /\ DeclaredLength(eStdin) = n
            /\ Len(elements) = n + 1
            /\ \A i \in 1..n :
                   /\ Len(elements[i]) = 3
                   /\ elements[i][1] = "0x"
                   /\ NumeralValue(SubSeq(elements[i], 2, 3), 16) = eContent[i]
            /\ elements[n + 1] = <<"0x00">>
            /\ n = 0 => SubSeq(eStdin, TokenIndex(eStdin, "_DATA[] = {", 1) + 1,
                               Len(eStdin)) = <<"0x00", "};">>

\* A content of three bytes, one of them below 0x10, was piped.
C14_Witness ==
    /\ ePc = "piped"
    /\ Len(eContent) = 3
    /\ \E i \in 1..3 : eContent[i] = 10
    /\ Len(DataElements(eStdin)) = 4

\* The empty content was piped.
C14_WitnessEmpty ==
    /\ ePc = "piped"
    /\ Len(eContent) = 0
    /\ DataElements(eStdin) = <<<<"0x00">>>>

(***************************************************************************)
(* Claims about the compiler arguments (checked under SpecArgs)            *)
(***************************************************************************)
\* C20: without dependencies, the arguments are the pair -I d for every
\* include directory of the configuration in order, then the pair -D m for
\* every macro in enumeration order, then the pair -L dir for every library
\* lookup, then the flags unchanged.
C20_ArgumentsInOrder ==
    (gPc = "returned" /\ gDependencies = <<>>) =>
        LET dirs == gModule.includeDirs
            macros == gModule.defineMacros
            libs == gModule.libraryLookup
            nI == 2 * Len(dirs)
            nD == 2 * Len(macros)
            nL == 2 * Len(libs)
        IN  /\ Len(gArgs) = nI + nD + nL + Len(gFlags)
            /\ \A i \in DOMAIN dirs :
                   gArgs[2 * i - 1] = <<"-I">> /\ gArgs[2 * i] = dirs[i]
            /\ \A i \in DOMAIN macros :
                   /\ gArgs[nI + 2 * i - 1] = <<"-D">>
                   /\ SubSeq(gArgs[nI + 2 * i], 1, 1) = macros[i].name
                   /\ macros[i].value.type = "boolean" =>
                          gArgs[nI + 2 * i] = macros[i].name
                   /\ macros[i].value.type = "number" =>
                          gArgs[nI + 2 * i] = macros[i].name \o <<"=", "1">>
                   /\ macros[i].value.type = "string" =>
                          gArgs[nI + 2 * i] =
                              macros[i].name \o <<"=\"">> \o macros[i].value.string
                              \o <<"\"">>
            /\ \A i \in DOMAIN libs :
                   gArgs[nI + nD + 2 * i - 1] = <<"-L">> /\ gArgs[nI + nD + 2 * i] = libs[i]
            /\ SubSeq(gArgs, nI + nD + nL + 1, Len(gArgs)) = gFlags

\* Arguments were made for two include directories, two macros, a library
\* lookup and two flags.
C20_Witness ==
    /\ gPc = "returned"
    /\ gDependencies = <<>>
    /\ Len(gModule.includeDirs) = 2
    /\ Len(gModule.defineMacros) = 2
    /\ Len(gModule.libraryLookup) = 1
    /\ Len(gFlags) = 2
    /\ Len(gArgs) = 12

(***************************************************************************)
(* Claims about the order of discovery (checked under SpecDiscovery)       *)
(***************************************************************************)
\* The depth the traversal below is followed to.
TraversalDepth == 8

\* The pre-order depth-first traversal from a directory: the names tracked so
\* far, then the manifest's own name at its first sighting, then its
\* dependencies in declaration order, every name already tracked skipped.
\* It fails where a dependency cannot be located (or the depth is used up).
RECURSIVE PreOrderVisit(_, _, _, _), PreOrderLoop(_, _, _, _, _)
PreOrderVisit(tree, dir, names, depth) ==
    IF depth = 0 THEN [failed |-> TRUE, names |-> names]
    ELSE LET own == tree[dir].name
             seen == IF own \in RangeOf(names) THEN names ELSE Append(names, own)
         IN  PreOrderLoop(tree, dir, 1, seen, depth - 1)

PreOrderLoop(tree, dir, i, names, depth) ==
    IF i > Len(tree[dir].dependencies) THEN [failed |-> FALSE, names |-> names]
    ELSE LET key == tree[dir].dependencies[i]
             dependencyDir == resolvePackageDir(tree, key, Root, dir)
         IN  IF key \in RangeOf(names)
             THEN PreOrderLoop(tree, dir, i + 1, names, depth)
             ELSE IF dependencyDir = NotFound
             THEN [failed |-> TRUE, names |-> names]
             ELSE LET below == PreOrderVisit(tree, dependencyDir, names, depth)
                  IN  IF below.failed THEN below
                      ELSE PreOrderLoop(tree, dir, i + 1, below.names, depth)

\* The names of a collection, in iteration order.
NamesOf(pkgs) == [i \in DOMAIN pkgs |-> pkgs[i].packageJSON.name]

\* Every manifest met by the traversal lists @yaje/core or has no dependencies.
NoManifestPruned(tree, dirs) ==
    \A d \in DependencyClosure(tree, dirs) :
        tree[d].dependencies = <<>> \/ Core \in RangeOf(tree[d].dependencies)

\* C22: after discovery the collection's iteration order is the pre-order
\* depth-first traversal from the root that visits each manifest's
\* dependencies in declaration order and skips every name already tracked; a
\* package whose record was replaced by its native record is at the position
\* of its first sighting; the collection is a function of the tree, so two
\* discoveries of one tree give the same ordered collection.
C22_CollectionInPreOrder ==
    LET expected == PreOrderVisit(dTree, Root, <<>>, TraversalDepth)
    IN  (dPc = "discovered" /\ ~expected.failed) =>
            /\ NamesOf(packages) = expected.names
            /\ \A i \in DOMAIN packages :
                   packages[i].isNative = dTree[packages[i].packageFolder].buildFile

\* The script of a visited directory is one of the claim's failing cases: it
\* has no default export, its default export is not a CFG, it gives an add...
\* call a path that is not an existing directory, or the target is unset
\* when it constructs its configuration object.
FailingCase(dir) ==
    /\ dVisits[dir] > 0
    /\ dTree[dir].buildFile
    /\ "throws" \in DOMAIN dTree[dir].script \/ dTarget = Null

\* C24: in each of the failing cases of a build-configuration script,
\* loading it fails and discovery fails with it, and the package is never
\* recorded as native.
C24_FailingScriptFailsDiscovery ==
    \A dir \in DOMAIN dVisits :
        FailingCase(dir) =>
            /\ dPc = "failed"
            /\ \A i \in DOMAIN packages :
                   packages[i].packageFolder = dir => ~packages[i].isNative

\* Discovery failed at p, whose default export is not a CFG, after the root
\* and @yaje/core were recorded.
C24_Witness ==
    /\ dPc = "failed"
    /\ FailingCase(Installed("p"))
    /\ dTree[Installed("p")].script.throws = "not a CFG"
    /\ Len(packages) = 3
    /\ ~packages[3].isNative

\* Discovery failed because the target was unset when a script constructed
\* its configuration object.
C24_WitnessUnsetTarget ==
    /\ dPc = "failed"
    /\ dTarget = Null
    /\ \E dir \in DOMAIN dVisits :
           FailingCase(dir) /\ "throws" \notin DOMAIN dTree[dir].script

(***************************************************************************)
(* Claims about the accessors of PackageCollection (SpecCollection)        *)
(***************************************************************************)
\* The positions of the bundlers of a collection.
BundlerPositions(pkgs) == {i \in DOMAIN pkgs : pkgs[i].isBundler}

\* C21: getCore returns the package named @yaje/core only when it is present
\* and native and fails otherwise; getBundler returns the first package in
\* insertion order with isBundler = true and fails when there is none;
\* neither accessor changes the collection.
C21_AccessorsReturnOrFail ==
    /\ kPc = "getCore" =>
         /\ kPackages = kBefore
         /\ IF \E i \in DOMAIN kBefore :
                  kBefore[i].packageJSON.name = Core /\ kBefore[i].isNative
            THEN /\ ~kResult.threw
                 /\ kResult.value \in RangeOf(kBefore)
                 /\ kResult.value.packageJSON.name = Core
                 /\ kResult.value.isNative
            ELSE kResult.threw
    /\ kPc = "getBundler" =>
         /\ kPackages = kBefore
         /\ IF BundlerPositions(kBefore) = {}
            THEN kResult.threw
            ELSE /\ ~kResult.threw
                 /\ \E i \in BundlerPositions(kBefore) :
                      /\ kResult.value = kBefore[i]
                      /\ \A j \in BundlerPositions(kBefore) : i <= j

\* getCore was asked of a collection that holds a non-native @yaje/core and
\* threw; the collection holds two bundlers.
C21_Witness ==
    /\ kPc = "getCore"
    /\ kResult.threw
    /\ Has(kBefore, Core)
    /\ Cardinality(BundlerPositions(kBefore)) = 2

(***************************************************************************)
(* Claims about the generated main (checked under SpecMain)                *)
(***************************************************************************)
CoreFunctions ==
    {"yaje_core_ctor", "yaje_core_load_modules", "yaje_core_execute", "yaje_core_free"}

\* The calls of the trace that main itself makes.
CoreCalls == SelectSeq(rTrace, LAMBDA call : call.function \in CoreFunctions)

\* C25: on every path that returns from main, yaje_core_ctor is called
\* exactly once and first, then yaje_core_load_modules, then
\* yaje_core_execute, then yaje_core_free exactly once, and main returns the
\* result of yaje_core_execute; yaje_core_free is reached also when
\* yaje_core_execute reports failure.
C25_MainCallsInOrder ==
    rStatus = "returned" =>
        /\ [i \in DOMAIN CoreCalls |-> CoreCalls[i].function] =
               <<"yaje_core_ctor", "yaje_core_load_modules", "yaje_core_execute",
                 "yaje_core_free">>
        /\ rTrace[1].function = "yaje_core_ctor"
        /\ rTrace[Len(rTrace)].function = "yaje_core_free"
        /\ rResult = CoreCalls[3].result

\* main returned the failure of yaje_core_execute, after two loading
\* functions were called and the runtime was freed.
C25_Witness ==
    /\ rStatus = "returned"
    /\ rResult = 1
    /\ Len(rTrace) = 6
    /\ rTrace[6].function = "yaje_core_free"

(***************************************************************************)
(* Claims about the bundler gateways                                       *)
(***************************************************************************)
\* C26: a gateway resolves bundle(entry), with genFolder/bundle.js, only
\* when the bundler produced exactly one .js artifact; it fails when the
\* bundler produced none or more than one; and after a failure build returns
\* 1 without entering the native phase.
C26_GatewayRequiresOneArtifact ==
    bPc \in {"bundle", "native", "return 1"} =>
        /\ ~bResult.threw =>
              /\ bResult.value = BundleJs
              /\ Cardinality(JsArtifacts(bArtifacts)) = 1
        /\ Cardinality(JsArtifacts(bArtifacts)) # 1 => bResult.threw
        /\ bResult.threw => bPc # "native"

(***************************************************************************)
(* Claims about the header scan                                            *)
(***************************************************************************)
\* The -I, -D and -target elements of an argument vector, each with the
\* element after it, in their order.
RECURSIVE OptionPairs(_)
OptionPairs(args) ==
    IF Len(args) = 0 THEN <<>>
    ELSE IF Head(args) \in SeparateOptions /\ Len(args) >= 2
    THEN <<args[1], args[2]>> \o OptionPairs(Tail(Tail(args)))
    ELSE OptionPairs(Tail(args))

\* C27: getDependencies spawns clang with -MM, then every -I with its
\* directory, every -D with its macro and -target with its triple, in the
\* order of the argument vector, then the source, and nothing else.
C27_ScanPassesOptionsWithValues ==
    sPc = "returned" =>
        sLine = <<<<"-MM">>>> \o OptionPairs(sArgs) \o <<PathString(sSource)>>

(***************************************************************************)
(* Claims about the embed step                                             *)
(***************************************************************************)
\* The embed step is over, for a bundle that was read.
StepOver == oPc \in {"done", "failed"} /\ oBefore.bundle # NoFile

\* When the step began, bundle.o was missing, bundle.hash was missing or the
\* stored hash differed from the SHA-256 of the bundle bytes.
StaleBefore ==
    \/ oBefore.object = NoFile
    \/ oBefore.hashFile = NoFile
    \/ oBefore.hashFile[1] # Sha256(oBefore.bundle[1])

\* C28: the embed step invokes the compiler exactly when bundle.o is
\* missing, bundle.hash is missing or the stored hash differs from the
\* SHA-256 of the bundle bytes; bundle.hash is written only after embedFile
\* resolved, and then with that SHA-256; bundle.o joins the link inputs of a
\* step that succeeds, skipped or not.  (Without a bundle to read the step
\* fails before it decides anything.)
C28_EmbedExactlyWhenStale ==
    /\ StepOver => (oEmbed # "none" <=> StaleBefore)
    /\ (oPc \in {"done", "failed"} /\ oBefore.bundle = NoFile) =>
          oEmbed = "none" /\ oPc = "failed" /\ oHashFile = oBefore.hashFile
    /\ (oPc \in {"done", "failed"} /\ oHashFile # oBefore.hashFile /\ oHashFile # NoFile) =>
          /\ oEmbed = "resolved"
          /\ oHashFile = File(Sha256(oBefore.bundle[1]))
          /\ oObject = File(oBefore.bundle[1])
    /\ oPc = "done" => oModules = <<BundleObject>>

\* A second build skipped the embed: bundle.o and a matching bundle.hash
\* were there, and bundle.o is a link input all the same.
C28_Witness ==
    /\ oBuilds >= 2
    /\ oPc = "done"
    /\ oEmbed = "none"
    /\ ~StaleBefore
    /\ oModules = <<BundleObject>>

\* A later build embedded again because bundle.o was gone while the stored
\* hash was the current one.
C28_WitnessObjectMissing ==
    /\ oBuilds >= 2
    /\ oPc = "done"
    /\ oEmbed = "resolved"
    /\ oBefore.object = NoFile
    /\ oBefore.hashFile = File(Sha256(oBefore.bundle[1]))

(***************************************************************************)
(* Claims about the subprocesses of a build                                *)
(***************************************************************************)
\* The entries of the log of this build that module m made at these sites.
ModuleEvents(m, sites) ==
    {i \in DOMAIN uLog : uLog[i].module = m /\ uLog[i].site \in sites}

C29_WitnessNoSources ==
    \E m \in DOMAIN uArchives :
        uPlan[m] = 0 /\ Cardinality(ModuleEvents(m, {"bundleFiles"})) = 1

\* C30: at most one child is outstanding; while it is, build awaits it at
\* the site that spawned it, so that no child of an earlier step or phase
\* runs beside a later one; and build ends with no child left.
C30_OneChildAtATime ==
    /\ Len(uChildren) <= 1
    /\ uChildren # <<>> => uPc = [at |-> uChildren[1].site, awaiting |-> TRUE]
    /\ uPc.at \in Ends => uChildren = <<>>

\* The linker runs alone, after the children of the probes, of a module's
\* compile and archive, of the embed and of the entry point have closed.
C30_Witness ==
    /\ uChildren = <<Event("linkFiles", uModule)>>
    /\ \A site \in SpawnSites : \E i \in DOMAIN uLog : uLog[i].site = site

(***************************************************************************)
(* Claims about the kinds of macro values                                  *)
(***************************************************************************)
\* The value is true, a number or a string.
Serializable(value) ==
    value = MacroTrue \/ value.type \in {"number", "string"}

\* C31: a macro of value true is serialized as NAME, a number n as NAME=n, a
\* string s as NAME="s"; with a macro value of any other kind (false, null,
\* undefined, an object) generateCompilerArguments fails and emits nothing.
C31_OtherMacroKindsFail ==
    mPc = "returned" =>
        LET macros == mModule.defineMacros
        IN  IF \A i \in DOMAIN macros : Serializable(macros[i].value)
            THEN /\ ~mResult.threw
                 /\ Len(mResult.value) = 2 * Len(macros)
                 /\ \A i \in DOMAIN macros :
                      /\ mResult.value[2 * i - 1] = <<"-D">>
                      /\ mResult.value[2 * i] =
                           (CASE macros[i].value = MacroTrue -> macros[i].name
                              [] macros[i].value.type = "number" ->
                                   macros[i].name \o <<"=">>
                                   \o Decimal(macros[i].value.number)
                              [] macros[i].value.type = "string" ->
                                   macros[i].name \o <<"=\"">>
                                   \o macros[i].value.string \o <<"\"">>)
            ELSE mResult.threw

(***************************************************************************)
(* Claims about the module-local flags                                     *)
(***************************************************************************)
\* C32: the cFlags of a native module are among the arguments of the compile
\* of its sources, and its lFlags among the arguments of the link.
C32_ModuleFlagsArePassed ==
    /\ fPc \in {"link", "done"} =>
         \A i \in DOMAIN fInstructions.cFlags :
            fInstructions.cFlags[i] \in RangeOf(fCompileArgs)
    /\ fPc = "done" =>
         \A i \in DOMAIN fInstructions.lFlags :
            fInstructions.lFlags[i] \in RangeOf(fLinkArgs)

(***************************************************************************)
(* Claims about the CFGResult of a build script                            *)
(***************************************************************************)
\* A C identifier: a letter or an underscore, then letters, digits and
\* underscores.
IsCIdentifier(chars) ==
    /\ Len(chars) > 0
    /\ chars[1] \in {"f", "g", "_"}
    /\ \A i \in DOMAIN chars : chars[i] \in {"f", "g", "_", "1"}

\* C33: the CFGResult that complete() returns, after any calls of addSource,
\* addIncludeDir, addLibraryLookup, defineMacro and setLoadingFunctions, has
\* no source twice and only valid C identifiers as loading functions.
C33_ResultIsWellFormed ==
    cfgPc = "completed" =>
        /\ \A i, j \in DOMAIN cfgResult.sources :
              i # j => cfgResult.sources[i] # cfgResult.sources[j]
        /\ \A i \in DOMAIN cfgResult.loadingFunctions :
              IsCIdentifier(cfgResult.loadingFunctions[i])

(***************************************************************************)
(* Claims about the commands of the CLI                                    *)
(***************************************************************************)
\* C34: when the -t option holds a string that parseTargetTriple rejects,
\* no phase of build (or cdb) runs and the process ends with exit code 1.
C34_UnparseableTargetExitsWithOne ==
    (xPc = "exited" /\ xOption # NoString /\ parseTargetTriple(xOption) = Null) =>
        ~xRan /\ xExit = 1

PassesTarget(argv, targetString) ==
    \E i \in 1..(Len(argv) - 1) : argv[i] = <<"-target">> /\ argv[i + 1] = targetString

\* C36: every clang invocation of the build (a module source, the embed of
\* the bundle, main.c, the link) passes -target with the triple string of
\* the build's target.
C36_EveryInvocationPassesTarget ==
    \A i \in DOMAIN iArgv : PassesTarget(iArgv[i].argv, getTargetTripleString(iTarget))

(***************************************************************************)
(* Claims about a failing compile (checked under SpecFailure)              *)
(***************************************************************************)
\* The compiles of the run that exited non-zero.
FailedCompiles == {i \in DOMAIN jLog : jLog[i].event = "compileFile" /\ jLog[i].code # 0}

\* C37 in one run over every cache a run before may have left: a compile
\* that exits non-zero is the last thing the run does (no later compile,
\* no sidecar write, no archiver), the step that fails changes no sidecar,
\* and every sidecar written earlier in the run holds what was written.
C37_FailingCompileEndsTheRun ==
    /\ [](\A i \in FailedCompiles : i = Len(jLog) /\ jPc = "threw")
    /\ [][/\ jPc # "threw"
          /\ jPc' = "threw" => jHashFiles' = jHashFiles]_vars
    /\ [](jPc = "threw" =>
            \A i \in DOMAIN jLog :
                jLog[i].event = "writeFileSync" =>
                    /\ jLog[i].name \in DOMAIN jHashFiles
                    /\ \E k \in DOMAIN jSources :
                         jHashFiles[jLog[i].name] = HashOf(jSources[k], BytesNow))

\* The third source failed to compile after the sidecar of an earlier one
\* was written in the same run, and the failing source has no sidecar.
C37_Witness ==
    /\ jPc = "threw"
    /\ jIdx = 3
    /\ \E i \in DOMAIN jLog : jLog[i].event = "writeFileSync"
    /\ jName \notin DOMAIN jHashFiles

(***************************************************************************)
(* Claims about the dependencies of a module (checked under SpecDiscovery) *)
(***************************************************************************)
\* The instructions of the native packages among the direct manifest
\* dependencies of a module, in manifest order: for each key, the package
\* discovery found in the directory the key resolves to from the module.
RECURSIVE DirectNativeDependencies(_, _, _, _)
DirectNativeDependencies(tree, pkgs, fromDir, keys) ==
    IF Len(keys) = 0 THEN <<>>
    ELSE LET dir == resolvePackageDir(tree, Head(keys), Root, fromDir)
             found == SelectSeq(pkgs, LAMBDA pkg : pkg.packageFolder = dir /\ pkg.isNative)
         IN  (IF Len(found) > 0 THEN <<found[1].instructions>> ELSE <<>>)
             \o DirectNativeDependencies(tree, pkgs, fromDir, Tail(keys))

\* C38: the dependencies build computes the arguments of a module with are
\* the native packages among the module's direct manifest dependencies, in
\* manifest order; a dependency that is not in the collection is skipped.
C38_DependenciesAreDirectNatives ==
    dPc = "module" =>
        BuildDependencies(packages, packages[dIdx].packageJSON.dependencies)
            = DirectNativeDependencies(dTree, packages, packages[dIdx].packageFolder,
                                       packages[dIdx].packageJSON.dependencies)

(***************************************************************************)
(* Claims about resolvePackageDir (checked under SpecResolve)              *)
(***************************************************************************)
\* The depths of fromDir and of its ancestors at which node_modules/<name>
\* is an existing directory.
Hits == {k \in 0..Len(vFrom) : vFs[ResolvePath(Ancestor(k), Wanted)] = "dir"}

\* The deepest of them: the nearest to fromDir.
NearestHit == CHOOSE k \in Hits : \A other \in Hits : other <= k

\* The directories of the file system, as the discovery takes them.
DirectoriesOf(fs) == [path \in {p \in DOMAIN fs : fs[p] = "dir"} |-> TRUE]

\* C39: resolvePackageDir returns <d>/node_modules/<name> for the nearest d
\* among fromDir and its ancestors, up to the root of the file system, at
\* which that path is an existing directory; it throws when there is none;
\* and it ends for every fromDir.
C39_ResolvesToNearestAncestor ==
    /\ [](vPc = "returned" =>
            /\ Hits # {}
            /\ vResult = ResolvePath(Ancestor(NearestHit), Wanted)
            /\ vResult = resolvePackageDir(DirectoriesOf(vFs), Wanted, vRoot, vFrom))
    /\ [](vPc = "threw" =>
            /\ Hits = {}
            /\ resolvePackageDir(DirectoriesOf(vFs), Wanted, vRoot, vFrom) = NotFound)
    /\ <>(vPc \in {"returned", "threw"})

\* The package was found above the project root, past a file of the same
\* path nearer by.
C39_Witness ==
    /\ vPc = "returned"
    /\ Len(vResult) < Len(ResolvePath(vRoot, Wanted))
    /\ \E k \in 0..Len(vFrom) : vFs[ResolvePath(Ancestor(k), Wanted)] = "file" /\ k > NearestHit

\* No ancestor has the package: the call threw at the root of the file
\* system.
C39_WitnessThrows == vPc = "threw" /\ vDir = <<>> /\ Len(vFrom) = MaxDepth

(***************************************************************************)
(* Claims about the names of the native modules (SpecDiscovery)            *)
(***************************************************************************)
\* path.join(cacheFolder, module.name) of the compiler's compileModule.
moduleCacheFolder(pkg) == <<"cache", pkg.instructions.name>>

\* path.join(output.objFolder, module.packageJSON.name) of the driver's
\* compileModule.
outputFolder(pkg) == <<"obj", pkg.packageJSON.name>>

\* C40: every native package of the collection has its manifest's name as
\* instructions.name, whatever was loaded before it, so its cache folder
\* and its object folder carry the same name, and no two native packages
\* have the same cache folder or the same object folder.
C40_InstructionsNamedAsManifest ==
    \A i \in DOMAIN packages :
        packages[i].isNative =>
            /\ packages[i].instructions.name = packages[i].packageJSON.name
            /\ moduleCacheFolder(packages[i])[2] = outputFolder(packages[i])[2]
            /\ \A j \in DOMAIN packages :
                 (j # i /\ packages[j].isNative) =>
                    /\ moduleCacheFolder(packages[j]) # moduleCacheFolder(packages[i])
                    /\ outputFolder(packages[j]) # outputFolder(packages[i])

\* Three native packages were loaded one after the other, one of them
\* installed under a key that is not its name.
C40_Witness ==
    /\ dPc = "module"
    /\ Len(SelectSeq(packages, LAMBDA pkg : pkg.isNative)) >= 3
    /\ \E i \in DOMAIN packages :
         packages[i].isNative /\ packages[i].packageJSON.name = "p-renamed"

=============================================================================
